---------------------------- MODULE Spec2Model ----------------------------
(***************************************************************************)
(* Expression style recognition (Expression_style_recognition.py).         *)
(*                                                                         *)
(* Times are integers in milliseconds; pitches are MIDI numbers.  numpy    *)
(* rows are records; source row and column indices are 0-based, sequence   *)
(* indices here are 1-based (source index + 1).                            *)
(*                                                                         *)
(* Each routine of the source is an operator computed the way the code     *)
(* computes it; each specification below draws the routine's arguments     *)
(* in its initial states and applies the routine in its actions.           *)
(***************************************************************************)
EXTENDS Integers, Sequences, FiniteSets

VARIABLES
    pc,                         \* position of the routine / pipeline driver
    note,                       \* note array scanned by a detector
    extent,                     \* identify_serrated_pattern: extent
    merged_notes,               \* identify_serrated_pattern: merged_notes
    wild_vibrato,               \* identify_serrated_pattern: wild_vibrato
    long_slide_sec,             \* LongSlide.long_slide_sec
    quantised_melody,           \* LongSlide.quantised_melody, the frame-level contour
    CAD_pattern,                \* long_CAD_pattern_detection: CAD_pattern
    note_of_long_CAD,           \* long_CAD_pattern_detection: note_of_long_CAD
    long_CAD_index,             \* long_CAD_pattern_detection: long_CAD_index
    short_CAD,                  \* long_CAD_pattern_detection: short_CAD
    expression_style_note,      \* the ESN array handed to a routine (changed in place)
    note_with_expression_style, \* update_esn: note_with_expression_style
    technique,                  \* update_esn: technique
    sub_technique,              \* update_esn: sub_technique
    returned,                   \* the array a routine returns
    result_ref,                 \* classifier result handed to a fusion routine
    result,                     \* the routine's working copy of result_ref
    note_to_be_deleted,         \* merge_and_update_prebend_bend_release: note_to_be_deleted
    index_candi,                \* merge_and_update_prebend_bend_release: index_candi
    tech_index_dic,             \* main: tech_index_dic, handed to update_pull_hamm_slide
    cls_mode,                   \* main: cls_mode
    ascending_cls_result,       \* main: the rows of the .ascending cls_result file
    descending_cls_result,      \* main: the rows of the .descending cls_result file
    result_all,                 \* main: result_all
    audio_files,                \* main: audio_files, each with the inputs that exist for it
    f,                          \* main: position of f in audio_files
    MIDI_smooth_melody,         \* main: the item whose smoothed melody the name is bound to
    raw_melody,                 \* main: the item whose raw melody the name is bound to
    raw_note,                   \* main: the item whose raw notes the name is bound to
    esn_files,                  \* the .esn files written to the output directory
    expression_style_ts,        \* main: expression_style_ts, the time segment list
    printed                     \* the stage announcements main has printed

noteVars == <<note>>
wvVars == <<extent, merged_notes, wild_vibrato>>
lsVars == <<long_slide_sec, quantised_melody>>
cadVars == <<CAD_pattern, note_of_long_CAD, long_CAD_index, short_CAD>>
esnVars == <<expression_style_note, returned>>
fuseVars == <<note_with_expression_style, technique, sub_technique>>
clfVars == <<result_ref, result, note_to_be_deleted, index_candi,
             tech_index_dic>>
clsVars == <<cls_mode, ascending_cls_result, descending_cls_result, result_all>>
batchVars == <<audio_files, f, MIDI_smooth_melody, raw_melody, raw_note, esn_files>>
pipeVars == <<expression_style_ts, printed>>
vars == <<pc, noteVars, wvVars, lsVars, cadVars, esnVars, fuseVars, clfVars,
          clsVars, batchVars, pipeVars>>

\* The variables a specification does not use stay at these values.
NoteIdle == note = <<>>
WVIdle == extent = 0 /\ merged_notes = <<>> /\ wild_vibrato = <<>>
LSIdle == long_slide_sec = <<>> /\ quantised_melody = <<>>
CADIdle ==
    /\ CAD_pattern = <<>>
    /\ note_of_long_CAD = <<>>
    /\ long_CAD_index = <<>>
    /\ short_CAD = <<>>
ESNIdle == expression_style_note = <<>> /\ returned = <<>>
FuseIdle ==
    /\ note_with_expression_style = <<>>
    /\ technique = ""
    /\ sub_technique = 0
ClfIdle ==
    /\ result_ref = <<>>
    /\ result = <<>>
    /\ note_to_be_deleted = {}
    /\ index_candi = 0
    /\ tech_index_dic = <<>>
ClsIdle ==
    /\ cls_mode = ""
    /\ ascending_cls_result = <<>>
    /\ descending_cls_result = <<>>
    /\ result_all = <<>>
BatchIdle ==
    /\ audio_files = <<>>
    /\ f = 0
    /\ MIDI_smooth_melody = 0
    /\ raw_melody = 0
    /\ raw_note = 0
    /\ esn_files = {}
PipeIdle == expression_style_ts = <<>> /\ printed = <<>>

\* Every group of variables outside `used' is idle.
IdleBut(used) ==
    /\ IF "note" \in used THEN TRUE ELSE NoteIdle
    /\ IF "wv" \in used THEN TRUE ELSE WVIdle
    /\ IF "ls" \in used THEN TRUE ELSE LSIdle
    /\ IF "cad" \in used THEN TRUE ELSE CADIdle
    /\ IF "esn" \in used THEN TRUE ELSE ESNIdle
    /\ IF "fuse" \in used THEN TRUE ELSE FuseIdle
    /\ IF "clf" \in used THEN TRUE ELSE ClfIdle
    /\ IF "cls" \in used THEN TRUE ELSE ClsIdle
    /\ IF "batch" \in used THEN TRUE ELSE BatchIdle
    /\ IF "pipe" \in used THEN TRUE ELSE PipeIdle

---------------------------------------------------------------------------
(* numpy / arithmetic helpers *)

Abs(x) == IF x < 0 THEN -x ELSE x

\* np.sign
Sign(x) == IF x > 0 THEN 1 ELSE IF x < 0 THEN -1 ELSE 0

SetMax(S) == CHOOSE x \in S : \A y \in S : y <= x

SetMin(S) == CHOOSE x \in S : \A y \in S : x <= y

\* A raw note row [pitch, onset, duration].
Note(p, on, d) == [pitch |-> p, onset |-> on, dur |-> d]

\* onset + duration of a row
Offset(r) == r.onset + r.dur

\* note[a:b+1, 0] = 0 (1-based, inclusive)
ZeroPitch(arr, a, b) ==
    [i \in 1..Len(arr) |->
        IF a <= i /\ i <= b THEN [arr[i] EXCEPT !.pitch = 0] ELSE arr[i]]

---------------------------------------------------------------------------
(* WildVibrato.identify_serrated_pattern                                   *)

\* 0.01 s: the largest gap between two notes of a serrated run (exclusive)
GapLimit == 10

\* the least number of notes of a run that is merged
SerrationMinNotes == 5

\* The while loop that extends a run; offset_note is the run's last note so
\* far.  The source's bound offset_note+1 < note.shape[0]-1 (0-based) reads
\* offset_note + 1 < Len(arr) here.
RECURSIVE SerratedRunEnd(_, _, _, _)
SerratedRunEnd(arr, offset_note, sign, ext) ==
    LET step == arr[offset_note + 1].pitch - arr[offset_note].pitch
    IN  IF /\ Abs(step) = ext
           /\ Sign(step) # sign
           /\ arr[offset_note + 1].onset - Offset(arr[offset_note]) < GapLimit
           /\ offset_note + 1 < Len(arr)
        THEN SerratedRunEnd(arr, offset_note + 1, Sign(step), ext)
        ELSE offset_note

\* The for loop over n, with the arrays it has built so far.
RECURSIVE SerratedLoop(_, _, _, _, _)
SerratedLoop(n, arr, merged, wild, ext) ==
    IF n > Len(arr)
    THEN [merged_notes |-> merged, wild_vibrato |-> wild]
    ELSE IF arr[n].pitch # 0 /\ n + 1 <= Len(arr)
    THEN IF /\ arr[n + 1].pitch - arr[n].pitch = ext
            /\ arr[n + 1].onset - Offset(arr[n]) < GapLimit
         THEN LET onset_note == n
                  sign == Sign(arr[n + 1].pitch - arr[n].pitch)
                  offset_note == IF n + 2 <= Len(arr)
                                 THEN SerratedRunEnd(arr, n + 1, sign, ext)
                                 ELSE n + 1
                  num_notes == offset_note - onset_note + 1
                  onset_time == arr[onset_note].onset
                  duration == Offset(arr[offset_note]) - onset_time
                  one == Note(arr[n].pitch, onset_time, duration)
                  zeroed == ZeroPitch(arr, onset_note, offset_note)
              IN  IF num_notes >= SerrationMinNotes
                  THEN SerratedLoop(n + 1, zeroed, Append(merged, one),
                                    Append(wild, one), ext)
                  ELSE SerratedLoop(n + 1, zeroed,
                                    merged \o SubSeq(arr, onset_note, offset_note),
                                    wild, ext)
         ELSE SerratedLoop(n + 1, arr, Append(merged, arr[n]), wild, ext)
    ELSE IF arr[n].pitch # 0 /\ n + 1 > Len(arr)
    THEN SerratedLoop(n + 1, arr, Append(merged, arr[Len(arr)]), wild, ext)
    ELSE SerratedLoop(n + 1, arr, merged, wild, ext)

identify_serrated_pattern(note_pseudo, ext) ==
    SerratedLoop(1, note_pseudo, <<>>, <<>>, ext)

---------------------------------------------------------------------------
(* Arguments of identify_serrated_pattern: transcribed notes in onset      *)
(* order, each lasting one of WVNoteDurs ms, the gap to the previous note  *)
(* below or at the limit.                                                  *)

MaxWVNotes == 6

WVPitches == {60, 61, 62}

WVGaps == {0, GapLimit}

WVNoteDurs == {100}

\* The notes k.. appended to acc, each starting where its predecessor ends
\* plus the gap gs[k].
RECURSIVE BuildNotes(_, _, _, _, _)
BuildNotes(ps, ds, gs, k, acc) ==
    IF k > Len(ps) THEN acc
    ELSE LET on == IF k = 1 THEN 0 ELSE Offset(acc[k - 1]) + gs[k]
         IN  BuildNotes(ps, ds, gs, k + 1, Append(acc, Note(ps[k], on, ds[k])))

\* Contiguous notes from time 0: the first of pitch `first', note k at the
\* pitch of its predecessor plus st[k], lasting ds[k].
RECURSIVE BuildStepNotes(_, _, _, _, _)
BuildStepNotes(first, st, ds, k, acc) ==
    IF k > Len(ds) THEN acc
    ELSE BuildStepNotes(first, st, ds, k + 1,
            Append(acc,
                   IF k = 1 THEN Note(first, 0, ds[1])
                   ELSE Note(acc[k - 1].pitch + st[k], Offset(acc[k - 1]), ds[k])))

\* note is a list of at most maxLen notes over the given values.
IsNoteList(arr, maxLen, pitches, durs, gaps) ==
    \E L \in 0..maxLen :
        \E ps \in [1..L -> pitches], ds \in [1..L -> durs], gs \in [2..L -> gaps] :
            arr = BuildNotes(ps, ds, gs, 1, <<>>)

WVInit ==
    /\ pc = "identify_serrated_pattern"
    /\ IsNoteList(note, MaxWVNotes, WVPitches, WVNoteDurs, WVGaps)
    /\ extent \in {1, 2}
    /\ merged_notes = <<>>
    /\ wild_vibrato = <<>>
    /\ IdleBut({"note", "wv"})

WVIdentify ==
    /\ pc = "identify_serrated_pattern"
    /\ LET r == identify_serrated_pattern(note, extent)
       IN  /\ merged_notes' = r.merged_notes
           /\ wild_vibrato' = r.wild_vibrato
    /\ pc' = "done"
    /\ UNCHANGED <<noteVars, extent, lsVars, cadVars, esnVars, fuseVars, clfVars, clsVars, batchVars, pipeVars>>

WVNext == WVIdentify

SpecWV == WVInit /\ [][WVNext]_vars

---------------------------------------------------------------------------
(* C1 *)

\* The last note of the maximal serrated run whose last note so far is b:
\* steps of magnitude ext, alternating in sign, gaps below the limit, up to
\* and including the last note of the list.
RECURSIVE MaximalRunEnd(_, _, _, _)
MaximalRunEnd(arr, b, sign, ext) ==
    IF /\ b + 1 <= Len(arr)
       /\ Abs(arr[b + 1].pitch - arr[b].pitch) = ext
       /\ Sign(arr[b + 1].pitch - arr[b].pitch) # sign
       /\ arr[b + 1].onset - Offset(arr[b]) < GapLimit
    THEN MaximalRunEnd(arr, b + 1, Sign(arr[b + 1].pitch - arr[b].pitch), ext)
    ELSE b

\* What the serration rule asks for, scanning from note n: a maximal run of
\* at least 5 notes becomes one note, any other note is copied through.
RECURSIVE SerrationRule(_, _, _, _, _)
SerrationRule(n, arr, merged, wild, ext) ==
    IF n > Len(arr)
    THEN [merged_notes |-> merged, wild_vibrato |-> wild]
    ELSE IF /\ n + 1 <= Len(arr)
            /\ arr[n + 1].pitch - arr[n].pitch = ext
            /\ arr[n + 1].onset - Offset(arr[n]) < GapLimit
    THEN LET b == MaximalRunEnd(arr, n + 1, 1, ext)
             one == Note(arr[n].pitch, arr[n].onset,
                         Offset(arr[b]) - arr[n].onset)
         IN  IF b - n + 1 >= 5
             THEN SerrationRule(b + 1, arr, Append(merged, one),
                                Append(wild, one), ext)
             ELSE SerrationRule(b + 1, arr, merged \o SubSeq(arr, n, b),
                                wild, ext)
    ELSE SerrationRule(n + 1, arr, Append(merged, arr[n]), wild, ext)

\* C1: identify_serrated_pattern replaces every maximal serrated run of at
\* least 5 notes by one note (first pitch, first onset, last offset - first
\* onset), reported as wild vibrato, and copies every other note through,
\* wherever the run lies, the end of the list included.
C1_SerrationThreshold ==
    pc = "done" =>
        /\ merged_notes = SerrationRule(1, note, <<>>, <<>>, extent).merged_notes
        /\ wild_vibrato = SerrationRule(1, note, <<>>, <<>>, extent).wild_vibrato

---------------------------------------------------------------------------
(* LongSlide.detect: the ladder scan over the notes reconstructed from the *)
(* quantised melody (lines 381-400)                                        *)

\* LongSlide.__init__ defaults, 0.015 s and 0.09 s
min_transition_note_duration == 15

max_transition_note_duration == 90

\* the least number of steps of a ladder that is registered
LadderMinSteps == 5

\* A long_slide_sec / time segment row [start, end].
Segment(a, b) == [start |-> a, end |-> b]

\* The while loop that traces the ladder.  The source's bound
\* offset_note+2 < note.shape[0] (0-based) reads offset_note + 1 < Len(arr).
RECURSIVE LadderEnd(_, _)
LadderEnd(arr, offset_note) ==
    IF /\ arr[offset_note + 1].pitch + 1 = arr[offset_note].pitch
       /\ arr[offset_note + 1].dur >= min_transition_note_duration
       /\ arr[offset_note + 1].dur <= max_transition_note_duration
       /\ offset_note + 1 < Len(arr)
    THEN LadderEnd(arr, offset_note + 1)
    ELSE offset_note

\* for n in range(note.shape[0]-1)
RECURSIVE LadderLoop(_, _, _)
LadderLoop(n, arr, lss) ==
    IF n > Len(arr) - 1
    THEN lss
    ELSE IF arr[n].pitch # 0
    THEN LET onset_note == n
             offset_note == LadderEnd(arr, n)
             step == offset_note - onset_note + 1
             onset_time == arr[onset_note].onset
             offset_time == Offset(arr[offset_note])
         IN  LadderLoop(n + 1, ZeroPitch(arr, onset_note, offset_note),
                        IF step >= LadderMinSteps
                        THEN Append(lss, Segment(onset_time, offset_time))
                        ELSE lss)
    ELSE LadderLoop(n + 1, arr, lss)

LongSlideLadders(arr) == LadderLoop(1, arr, <<>>)

(* The reconstructed notes: frame2note yields notes in onset order, a note  *)
(* and its successor differing in pitch when no unvoiced frame parts them.  *)
(* Each note is one semitone below or above its predecessor and lasts 2, 9  *)
(* or 17 frames of 256/44100 s (12, 52, 99 ms): below, inside and above the *)
(* transition window.                                                      *)

MaxLSNotes == 6

LSFirstPitch == 70

LSSteps == {-1, 1}

LSDurs == {12, 52, 99}

IsLadderNoteList(arr) ==
    \E L \in 0..MaxLSNotes :
        \E st \in [2..L -> LSSteps], ds \in [1..L -> LSDurs] :
            arr = BuildStepNotes(LSFirstPitch, st, ds, 1, <<>>)

LSInit ==
    /\ pc = "LongSlide.detect"
    /\ IsLadderNoteList(note)
    /\ long_slide_sec = <<>>
    /\ quantised_melody = <<>>
    /\ IdleBut({"note", "ls"})

LSDetectLadders ==
    /\ pc = "LongSlide.detect"
    /\ long_slide_sec' = LongSlideLadders(note)
    /\ pc' = "done"
    /\ UNCHANGED quantised_melody
    /\ UNCHANGED <<noteVars, wvVars, cadVars, esnVars, fuseVars, clfVars, clsVars, batchVars, pipeVars>>

LSNext == LSDetectLadders

SpecLS == LSInit /\ [][LSNext]_vars

---------------------------------------------------------------------------
(* C2 *)

\* The last note of the maximal ladder whose last note so far is b, the last
\* note of the list included.
RECURSIVE MaximalLadderEnd(_, _)
MaximalLadderEnd(arr, b) ==
    IF /\ b + 1 <= Len(arr)
       /\ arr[b + 1].pitch + 1 = arr[b].pitch
       /\ arr[b + 1].dur >= min_transition_note_duration
       /\ arr[b + 1].dur <= max_transition_note_duration
    THEN MaximalLadderEnd(arr, b + 1)
    ELSE b

\* What the ladder rule asks for, scanning from note n.
RECURSIVE LadderRule(_, _, _)
LadderRule(n, arr, lss) ==
    IF n > Len(arr)
    THEN lss
    ELSE LET b == MaximalLadderEnd(arr, n)
         IN  LadderRule(b + 1, arr,
                        IF b - n + 1 >= 5
                        THEN Append(lss, Segment(arr[n].onset, Offset(arr[b])))
                        ELSE lss)

\* C2: every maximal ladder of reconstructed notes registers exactly one
\* slide-out interval [first onset, last offset] if and only if it has at
\* least 5 notes, wherever it lies, the last reconstructed note included.
C2_LadderThreshold ==
    pc = "done" =>
        long_slide_sec = LadderRule(1, note, <<>>)

---------------------------------------------------------------------------
(* SlowBend.long_CAD_pattern_detection                                     *)

\* the largest pitch difference between the first and the last covered note
MaxCADPitchDiff == 3

\* for m in range(n+2, n+4): the notes m.. still to look at for pattern p,
\* whose start lies in note n.
RECURSIVE CADEndLoop(_, _, _, _, _, _)
CADEndLoop(m, n, p, arr, pats, acc) ==
    IF m > n + 3
    THEN acc
    ELSE IF /\ pats[p].end >= arr[m].onset
            /\ pats[p].end <= Offset(arr[m])
            /\ m - n >= 2 /\ m - n <= 3
            /\ Abs(arr[n].pitch - arr[m].pitch) <= MaxCADPitchDiff
    THEN CADEndLoop(m + 1, n, p, arr, pats,
            [note_of_long_CAD |->
                Append(acc.note_of_long_CAD,
                       Note(arr[n].pitch, arr[n].onset,
                            arr[n].dur + arr[n + 1].dur + arr[n + 2].dur)),
             long_CAD_index |-> Append(acc.long_CAD_index, p)])
    ELSE CADEndLoop(m + 1, n, p, arr, pats, acc)

\* for n in range(pseudo_note.shape[0]), left by the break when fewer than
\* three notes follow note n (source: n+3 >= shape[0], 0-based).
RECURSIVE CADNoteLoop(_, _, _, _, _)
CADNoteLoop(n, p, arr, pats, acc) ==
    IF n > Len(arr)
    THEN acc
    ELSE IF /\ pats[p].start >= arr[n].onset
            /\ pats[p].start <= Offset(arr[n])
    THEN IF n + 2 >= Len(arr)
         THEN acc
         ELSE CADNoteLoop(n + 1, p, arr, pats,
                          CADEndLoop(n + 2, n, p, arr, pats, acc))
    ELSE CADNoteLoop(n + 1, p, arr, pats, acc)

\* for p in range(pseudo_CAD.shape[0])
RECURSIVE CADPatternLoop(_, _, _, _)
CADPatternLoop(p, arr, pats, acc) ==
    IF p > Len(pats)
    THEN acc
    ELSE CADPatternLoop(p + 1, arr, pats, CADNoteLoop(1, p, arr, pats, acc))

\* np.delete(arr, index, axis=0): the rows whose index is not in `index'
RECURSIVE DeleteRows(_, _, _)
DeleteRows(arr, index, k) ==
    IF k > Len(arr) THEN <<>>
    ELSE IF k \in index
         THEN DeleteRows(arr, index, k + 1)
         ELSE <<arr[k]>> \o DeleteRows(arr, index, k + 1)

SeqRange(q) == { q[i] : i \in 1..Len(q) }

long_CAD_pattern_detection(arr, pats) ==
    LET acc == CADPatternLoop(1, arr, pats,
                   [note_of_long_CAD |-> <<>>, long_CAD_index |-> <<>>])
    IN  [note_of_long_CAD |-> acc.note_of_long_CAD,
         long_CAD_index |-> acc.long_CAD_index,
         short_CAD |-> DeleteRows(pats, SeqRange(acc.long_CAD_index), 1)]

(* The note table: contiguous notes of 100 ms, each 1 or 2 semitones above  *)
(* its predecessor.  The CAD patterns: intervals between note boundaries    *)
(* and note middles, in time order, none starting before its predecessor    *)
(* ends.                                                                   *)

MaxCADNotes == 4

MaxCADPatterns == 2

CADFirstPitch == 60

CADSteps == {1, 2}

CADDurs == {100}

CADTimes == { 50 * k : k \in 0..(2 * MaxCADNotes) }

IsCADPatternList(pats) ==
    \E K \in 0..MaxCADPatterns :
        \E ss \in [1..K -> CADTimes], es \in [1..K -> CADTimes] :
            /\ \A k \in 1..K : ss[k] < es[k]
            /\ \A k \in 2..K : es[k - 1] <= ss[k]
            /\ pats = [k \in 1..K |-> Segment(ss[k], es[k])]

CADInit ==
    /\ pc = "long_CAD_pattern_detection"
    /\ \E L \in 0..MaxCADNotes :
        \E st \in [2..L -> CADSteps], ds \in [1..L -> CADDurs] :
            note = BuildStepNotes(CADFirstPitch, st, ds, 1, <<>>)
    /\ IsCADPatternList(CAD_pattern)
    /\ note_of_long_CAD = <<>>
    /\ long_CAD_index = <<>>
    /\ short_CAD = <<>>
    /\ IdleBut({"note", "cad"})

CADDetect ==
    /\ pc = "long_CAD_pattern_detection"
    /\ LET r == long_CAD_pattern_detection(note, CAD_pattern)
       IN  /\ note_of_long_CAD' = r.note_of_long_CAD
           /\ long_CAD_index' = r.long_CAD_index
           /\ short_CAD' = r.short_CAD
    /\ pc' = "done"
    /\ UNCHANGED <<noteVars, CAD_pattern, wvVars, lsVars, esnVars, fuseVars, clfVars, clsVars, batchVars, pipeVars>>

CADNext == CADDetect

SpecCAD == CADInit /\ [][CADNext]_vars

---------------------------------------------------------------------------
(* C3 *)

\* Notes n, n+1, n+2 ascend by exactly one semitone per step, pattern p
\* starts inside note n and ends within note n+2 (its boundaries included).
CADChain(n, p) ==
    /\ n + 2 <= Len(note)
    /\ note[n + 1].pitch = note[n].pitch + 1
    /\ note[n + 2].pitch = note[n + 1].pitch + 1
    /\ note[n].onset < CAD_pattern[p].start
    /\ CAD_pattern[p].start < Offset(note[n])
    /\ note[n + 2].onset <= CAD_pattern[p].end
    /\ CAD_pattern[p].end <= Offset(note[n + 2])

\* C3: for three consecutive notes ascending by one semitone per step and a
\* CAD interval from within the first to within the third,
\* long_CAD_pattern_detection returns exactly one merged note for the
\* pattern (pitch and onset of the first note, the three durations added)
\* and removes the pattern from the residual short list, also for the last
\* three notes of the table and an interval ending on a note boundary.
C3_CADChain ==
    pc = "done" =>
        \A n \in 1..Len(note), p \in 1..Len(CAD_pattern) :
            CADChain(n, p) =>
                /\ Cardinality({ i \in 1..Len(long_CAD_index) :
                                    long_CAD_index[i] = p }) = 1
                /\ \A i \in 1..Len(long_CAD_index) :
                        long_CAD_index[i] = p =>
                            note_of_long_CAD[i] =
                                Note(note[n].pitch, note[n].onset,
                                     note[n].dur + note[n + 1].dur + note[n + 2].dur)
                /\ \A k \in 1..Len(short_CAD) : short_CAD[k] # CAD_pattern[p]

---------------------------------------------------------------------------
(* The expression style note array and Common.update_esn                   *)

\* Column t of the array (source column index 3..11) by name.
ColName(t) ==
    CASE t = 3 -> "preBend" [] t = 4 -> "bend"    [] t = 5 -> "release"
      [] t = 6 -> "pull"    [] t = 7 -> "hamm"    [] t = 8 -> "slide"
      [] t = 9 -> "slideIn" [] t = 10 -> "slideOut" [] t = 11 -> "vibrato"

\* The if/elif chain that resolves a technique name to its column.
TechIndex(tech) ==
    CASE tech = "pre-bend" -> 3  [] tech = "bend" -> 4     [] tech = "release" -> 5
      [] tech = "pull" -> 6      [] tech = "hamm" -> 7     [] tech = "slide" -> 8
      [] tech = "slide in" -> 9  [] tech = "slide out" -> 10
      [] tech = "vibrato" -> 11

\* np.hstack((merged_notes, np.zeros((n, 9)))): a note with no technique
EsnRow(n) ==
    [pitch |-> n.pitch, onset |-> n.onset, dur |-> n.dur,
     preBend |-> 0, bend |-> 0, release |-> 0, pull |-> 0, hamm |-> 0,
     slide |-> 0, slideIn |-> 0, slideOut |-> 0, vibrato |-> 0]

EsnOfNotes(arr) == [i \in 1..Len(arr) |-> EsnRow(arr[i])]

\* TagRow with the duration written one column to the left, over the onset.
TagRowOverOnset(esn, r, duration, t, sub) ==
    [esn EXCEPT ![r] = [[@ EXCEPT !.onset = duration] EXCEPT ![ColName(t)] = sub]]

\* expression_style_note[r,2] = duration; expression_style_note[r,t] = sub
TagRow(esn, r, duration, t, sub) ==
    [esn EXCEPT ![r] = [[@ EXCEPT !.dur = duration] EXCEPT ![ColName(t)] = sub]]

\* EsnWalk that also keeps the row at which the walk stops when that row
\* starts exactly at the end of the detected note.
RECURSIVE EsnWalkEqualityKept(_, _, _, _, _, _)
EsnWalkEqualityKept(r_esn_r, r_esn, n, t, sub, acc) ==
    IF r_esn_r > Len(acc.esn)
    THEN acc
    ELSE IF Offset(acc.esn[r_esn_r]) >= Offset(n)
         THEN IF acc.esn[r_esn_r].onset >= Offset(n)
              THEN [esn |-> TagRow(acc.esn, r_esn, n.dur, t, sub),
                    note_to_be_deleted |-> acc.note_to_be_deleted]
              ELSE [esn |-> TagRow(acc.esn, r_esn, n.dur, t, sub),
                    note_to_be_deleted |->
                        Append(acc.note_to_be_deleted, r_esn_r)]
         ELSE EsnWalkEqualityKept(r_esn_r + 1, r_esn, n, t, sub,
                  [esn |-> acc.esn,
                   note_to_be_deleted |->
                       Append(acc.note_to_be_deleted, r_esn_r)])

\* EsnWalk that keeps the row at which the walk stops, wherever it starts.
RECURSIVE EsnWalkKeepingStop(_, _, _, _, _, _)
EsnWalkKeepingStop(r_esn_r, r_esn, n, t, sub, acc) ==
    IF r_esn_r > Len(acc.esn)
    THEN acc
    ELSE IF Offset(acc.esn[r_esn_r]) >= Offset(n)
         THEN [esn |-> TagRow(acc.esn, r_esn, n.dur, t, sub),
               note_to_be_deleted |-> acc.note_to_be_deleted]
         ELSE EsnWalkKeepingStop(r_esn_r + 1, r_esn, n, t, sub,
                  [esn |-> acc.esn,
                   note_to_be_deleted |->
                       Append(acc.note_to_be_deleted, r_esn_r)])

\* for r_esn_r in range(r_esn+1, len(expression_style_note)): the walk over
\* the rows after the matching row r_esn.  acc holds the array and
\* note_to_be_deleted.
RECURSIVE EsnWalk(_, _, _, _, _, _)
EsnWalk(r_esn_r, r_esn, n, t, sub, acc) ==
    IF r_esn_r > Len(acc.esn)
    THEN acc
    ELSE LET expression_style_note_offset == Offset(acc.esn[r_esn_r])
             note_with_expression_style_offset == Offset(n)
         IN  IF expression_style_note_offset >= note_with_expression_style_offset
             THEN IF acc.esn[r_esn_r].onset > note_with_expression_style_offset
                  THEN [esn |-> TagRow(acc.esn, r_esn, n.dur, t, sub),
                        note_to_be_deleted |-> acc.note_to_be_deleted]
                  ELSE [esn |-> TagRow(acc.esn, r_esn, n.dur, t, sub),
                        note_to_be_deleted |->
                            Append(acc.note_to_be_deleted, r_esn_r)]
             ELSE EsnWalk(r_esn_r + 1, r_esn, n, t, sub,
                          [esn |-> acc.esn,
                           note_to_be_deleted |->
                               Append(acc.note_to_be_deleted, r_esn_r)])

\* EsnRowLoop with the match by containment: a row matches when the detected
\* note starts anywhere inside it.
RECURSIVE EsnRowLoopContaining(_, _, _, _, _)
EsnRowLoopContaining(r_esn, n, t, sub, acc) ==
    IF r_esn > Len(acc.esn)
    THEN acc
    ELSE IF /\ acc.esn[r_esn].onset <= n.onset
            /\ n.onset < Offset(acc.esn[r_esn])
    THEN IF acc.esn[r_esn].dur >= n.dur
         THEN EsnRowLoopContaining(r_esn + 1, n, t, sub,
                         [esn |-> TagRow(acc.esn, r_esn, n.dur, t, sub),
                          note_to_be_deleted |-> acc.note_to_be_deleted])
         ELSE EsnRowLoopContaining(r_esn + 1, n, t, sub,
                         EsnWalk(r_esn + 1, r_esn, n, t, sub, acc))
    ELSE EsnRowLoopContaining(r_esn + 1, n, t, sub, acc)

\* for r_esn in range(len(expression_style_note)): the rows r_esn.. against
\* the detected note n.
RECURSIVE EsnRowLoop(_, _, _, _, _)
EsnRowLoop(r_esn, n, t, sub, acc) ==
    IF r_esn > Len(acc.esn)
    THEN acc
    ELSE IF n.onset = acc.esn[r_esn].onset
    THEN IF acc.esn[r_esn].dur >= n.dur
         THEN EsnRowLoop(r_esn + 1, n, t, sub,
                         [esn |-> TagRow(acc.esn, r_esn, n.dur, t, sub),
                          note_to_be_deleted |-> acc.note_to_be_deleted])
         ELSE EsnRowLoop(r_esn + 1, n, t, sub,
                         EsnWalk(r_esn + 1, r_esn, n, t, sub, acc))
    ELSE EsnRowLoop(r_esn + 1, n, t, sub, acc)

\* for r_n in range(len(note_with_expression_style))
RECURSIVE EsnNoteLoop(_, _, _, _, _)
EsnNoteLoop(r_n, detected, t, sub, acc) ==
    IF r_n > Len(detected)
    THEN acc
    ELSE EsnNoteLoop(r_n + 1, detected, t, sub,
                     EsnRowLoop(1, detected[r_n], t, sub, acc))

\* arr: the array passed in, as the call leaves it; ret: the array returned.
update_esn(esn, detected, tech, sub) ==
    LET acc == EsnNoteLoop(1, detected, TechIndex(tech), sub,
                           [esn |-> esn, note_to_be_deleted |-> <<>>])
    IN  [arr |-> acc.esn,
         ret |-> DeleteRows(acc.esn, SeqRange(acc.note_to_be_deleted), 1)]

(* The table: notes in onset order with no technique yet, each starting    *)
(* where its predecessor ends or one second later.  The detected notes     *)
(* start on a note onset or half a second into the first note.             *)

MaxEsnNotes == 3

MaxDetected == 2

EsnPitches == {60}

EsnDurs == {500, 1000}

EsnGaps == {0, 1000}

DetectedOnsets == {0, 500, 1000}

DetectedDurs == {500, 1200, 2500, 3000}

\* (technique, sub_technique) of the calls at lines 235-243, 406 and 505
EsnCalls == {<<"vibrato", 2>>, <<"slide out", 1>>, <<"bend", 3>>}

IsDetectedList(detected) ==
    \E K \in 0..MaxDetected :
        \E os \in [1..K -> DetectedOnsets], ds \in [1..K -> DetectedDurs] :
            detected = [k \in 1..K |-> Note(60, os[k], ds[k])]

EsnInit ==
    /\ pc = "update_esn"
    /\ \E L \in 0..MaxEsnNotes :
        \E ps \in [1..L -> EsnPitches], ds \in [1..L -> EsnDurs],
           gs \in [2..L -> EsnGaps] :
            expression_style_note = EsnOfNotes(BuildNotes(ps, ds, gs, 1, <<>>))
    /\ IsDetectedList(note_with_expression_style)
    /\ \E c \in EsnCalls : technique = c[1] /\ sub_technique = c[2]
    /\ returned = <<>>
    /\ IdleBut({"esn", "fuse"})

EsnUpdate ==
    /\ pc = "update_esn"
    /\ LET r == update_esn(expression_style_note, note_with_expression_style,
                           technique, sub_technique)
       IN  /\ expression_style_note' = r.arr
           /\ returned' = r.ret
    /\ pc' = "done"
    /\ UNCHANGED <<noteVars, wvVars, lsVars, cadVars, fuseVars, clfVars, clsVars, batchVars, pipeVars>>

EsnNext == EsnUpdate

SpecESN == EsnInit /\ [][EsnNext]_vars

---------------------------------------------------------------------------
(* C4 *)

\* Detected note k shares its onset with no row of the table.
NoOnsetMatch(esn, detected, k) ==
    \A r \in 1..Len(esn) : esn[r].onset # detected[k].onset

\* The sequence q without its element k.
DropAt(q, k) == SubSeq(q, 1, k - 1) \o SubSeq(q, k + 1, Len(q))

\* C4: a detected note whose onset equals the onset of no ESN row changes
\* nothing: update_esn returns (and leaves in the array passed in) the table
\* that the same call without that detected note returns.
C4_NoMatchIsNoOp ==
    [][ pc = "update_esn" /\ pc' = "done" =>
          \A k \in 1..Len(note_with_expression_style) :
              NoOnsetMatch(expression_style_note, note_with_expression_style, k) =>
                  LET without == update_esn(expression_style_note,
                                            DropAt(note_with_expression_style, k),
                                            technique, sub_technique)
                  IN  /\ returned' = without.ret
                      /\ expression_style_note' = without.arr ]_vars

\* update_esn has run on two detected notes: one matched no row, the other
\* one tagged a row and had a later row deleted.
C4_Witness ==
    /\ pc = "done"
    /\ technique = "vibrato"
    /\ Len(note_with_expression_style) = 2
    /\ \E k \in 1..2 :
          NoOnsetMatch(expression_style_note, note_with_expression_style, k)
    /\ \E r \in 1..Len(returned) : returned[r].vibrato = sub_technique
    /\ Len(returned) < Len(expression_style_note)

---------------------------------------------------------------------------
(* C5 *)

\* rows [0,1), [1,2), [3,4) with no technique
FusionGapTable ==
    EsnOfNotes(<<Note(60, 0, 1000), Note(60, 1000, 1000), Note(60, 3000, 1000)>>)

\* a detected note spanning [0.5, 3.5)
FusionGapDetected == <<Note(60, 500, 3000)>>

FusionGapCall ==
    /\ pc = "update_esn" /\ pc' = "done"
    /\ expression_style_note = FusionGapTable
    /\ note_with_expression_style = FusionGapDetected

\* C5 as claimed: the row covering time 0.5 is tagged with the technique and
\* ends at 3.5, and the row [3,4) is still in the returned table.
C5_FusionGapRule ==
    [][ FusionGapCall =>
          /\ \E r \in 1..Len(returned') :
                /\ returned'[r].onset = 0
                /\ returned'[r][ColName(TechIndex(technique))] = sub_technique
                /\ Offset(returned'[r]) = 3500
          /\ \E r \in 1..Len(returned') :
                returned'[r].onset = 3000 /\ returned'[r].dur = 1000 ]_vars

\* C5 amended: no row has onset 0.5, so the call changes nothing: no row is
\* tagged or resized and the three rows, [3,4) among them, are returned as
\* they were.
C5_FusionGapNoMatch ==
    [][ FusionGapCall =>
          /\ returned' = FusionGapTable
          /\ expression_style_note' = FusionGapTable ]_vars

\* update_esn has returned from the call on the fusion-gap table.
C5_Witness ==
    /\ pc = "done"
    /\ note_with_expression_style = FusionGapDetected
    /\ expression_style_note = FusionGapTable
    /\ returned = FusionGapTable

---------------------------------------------------------------------------
(* merge_and_update_prebend_bend_release                                   *)
(*                                                                         *)
(* A classifier result row is [start, end, label]; label 0 is bend.        *)

Candidate(s, e, l) == [start |-> s, end |-> e, label |-> l]

\* The test of lines 625-627 (and 696-698): the candidate starts strictly
\* inside row index_n and ends strictly inside row index_n + 1.
CoversTwoNotes(esn, cand, index_n) ==
    /\ cand.start > esn[index_n].onset
    /\ cand.start < esn[index_n].onset + esn[index_n].dur
    /\ cand.end > esn[index_n + 1].onset
    /\ cand.end < esn[index_n + 1].onset + esn[index_n + 1].dur

\* The while loop of lines 630-638.  The last conjunct adds the duration of
\* row current_index_note to the onset of row current_index_note + 1, as
\* line 636 does.
RECURSIVE MergeChainEnd(_, _, _, _)
MergeChainEnd(esn, res, current_index_candi, current_index_note) ==
    IF /\ current_index_note < Len(esn)
       /\ current_index_candi < Len(res)
       /\ res[current_index_candi + 1].label = 0
       /\ res[current_index_candi + 1].start > esn[current_index_note].onset
       /\ res[current_index_candi + 1].start
              < esn[current_index_note].onset + esn[current_index_note].dur
       /\ res[current_index_candi + 1].end > esn[current_index_note + 1].onset
       /\ res[current_index_candi + 1].end
              < esn[current_index_note + 1].onset + esn[current_index_note].dur
    THEN MergeChainEnd(esn, res, current_index_candi + 1, current_index_note + 1)
    ELSE [current_index_candi |-> current_index_candi,
          current_index_note |-> current_index_note]

\* np.nanmax(expression_style_note[a-1:b, 6:], axis=0) written to row index_n
MaxOfColumns(esn, index_n, a, b) ==
    [esn EXCEPT ![index_n] =
        [@ EXCEPT !.pull = SetMax({esn[n].pull : n \in a..b}),
                  !.hamm = SetMax({esn[n].hamm : n \in a..b}),
                  !.slide = SetMax({esn[n].slide : n \in a..b}),
                  !.slideIn = SetMax({esn[n].slideIn : n \in a..b}),
                  !.slideOut = SetMax({esn[n].slideOut : n \in a..b}),
                  !.vibrato = SetMax({esn[n].vibrato : n \in a..b})]]

\* for n in range(index_note, current_index_note): lines 650-655
RECURSIVE MergeBendLoop(_, _, _, _)
MergeBendLoop(n, index_n, last, esn) ==
    IF n >= last
    THEN esn
    ELSE LET pitch_diff == esn[n + 1].pitch - esn[n].pitch
         IN  MergeBendLoop(n + 1, index_n, last,
                 IF pitch_diff > 0
                 THEN [esn EXCEPT ![index_n].bend = pitch_diff]
                 ELSE IF pitch_diff < 0
                      THEN [esn EXCEPT ![index_n].release = Abs(pitch_diff)]
                      ELSE esn)

\* MergeRows that leaves the pitch of the anchor row as it is.
MergeRowsAnchorPitch(esn, index_n, last) ==
    LET e1 == [esn EXCEPT ![index_n].dur =
                   esn[last].onset + esn[last].dur - esn[index_n].onset]
        e2 == MaxOfColumns(e1, index_n, index_n + 1, last)
        e3 == MergeBendLoop(index_n, index_n, last, e2)
    IN  IF e3[index_n].bend = 0 /\ e3[index_n].release # 0
        THEN [e3 EXCEPT ![index_n].preBend = e3[index_n].release]
        ELSE e3

\* Lines 645-659 for the anchor row index_n and the last chained row `last'.
MergeRowsKeepingAnchor(esn, index_n, last) ==
    LET e1 == [esn EXCEPT ![index_n].dur =
                   esn[last].onset + esn[last].dur - esn[index_n].onset]
        e3 == MergeBendLoop(index_n, index_n, last, e1)
        e4 == IF e3[index_n].bend = 0 /\ e3[index_n].release # 0
              THEN [e3 EXCEPT ![index_n].preBend = e3[index_n].release]
              ELSE e3
    IN  [e4 EXCEPT ![index_n].pitch = SetMin({e4[n].pitch : n \in index_n..last})]

MergeRows(esn, index_n, last) ==
    LET e1 == [esn EXCEPT ![index_n].dur =
                   esn[last].onset + esn[last].dur - esn[index_n].onset]
        e2 == MaxOfColumns(e1, index_n, index_n + 1, last)
        e3 == MergeBendLoop(index_n, index_n, last, e2)
        e4 == IF e3[index_n].bend = 0 /\ e3[index_n].release # 0
              THEN [e3 EXCEPT ![index_n].preBend = e3[index_n].release]
              ELSE e3
    IN  [e4 EXCEPT ![index_n].pitch = SetMin({e4[n].pitch : n \in index_n..last})]

\* The body of the if at lines 625-659.  acc holds the array, the working
\* copy of the result and note_to_be_deleted.
MergeAt(index_n, index_c, acc) ==
    LET chain == MergeChainEnd(acc.esn, acc.result, index_c, index_n + 1)
    IN  [esn |-> MergeRows(acc.esn, index_n, chain.current_index_note),
         result |-> [c \in 1..Len(acc.result) |->
                        IF c \in index_c..chain.current_index_candi
                        THEN [acc.result[c] EXCEPT !.start = 0, !.end = 0]
                        ELSE acc.result[c]],
         note_to_be_deleted |->
             acc.note_to_be_deleted \cup ((index_n + 1)..chain.current_index_note)]

\* for index_note, note in enumerate(expression_style_note[:-1]): the rows
\* and the candidate are read as they are when the iteration reaches them.
RECURSIVE MergeNoteLoop(_, _, _)
MergeNoteLoop(index_n, index_c, acc) ==
    IF index_n >= Len(acc.esn)
    THEN acc
    ELSE MergeNoteLoop(index_n + 1, index_c,
             IF CoversTwoNotes(acc.esn, acc.result[index_c], index_n)
             THEN MergeAt(index_n, index_c, acc)
             ELSE acc)

\* One iteration of the loop over the candidates (lines 620-659).
MergeCandidate(index_c, acc) ==
    IF acc.result[index_c].label = 0 /\ acc.result[index_c].start # 0
    THEN MergeNoteLoop(1, index_c, acc)
    ELSE acc

RECURSIVE MergeCandidateLoop(_, _)
MergeCandidateLoop(index_c, acc) ==
    IF index_c > Len(acc.result)
    THEN acc
    ELSE MergeCandidateLoop(index_c + 1, MergeCandidate(index_c, acc))

\* The whole routine: the array as it is left in place, and the returned one.
merge_and_update_prebend_bend_release(esn, res_ref) ==
    LET acc == MergeCandidateLoop(1, [esn |-> esn, result |-> res_ref,
                                      note_to_be_deleted |-> {}])
    IN  [arr |-> acc.esn,
         ret |-> DeleteRows(acc.esn, acc.note_to_be_deleted, 1)]

\* Arguments of the fusion routines: a table of contiguous notes, some
\* already tagged as wide vibrato by the first stage, and a classifier
\* result whose windows run from the middle of one note to the middle of the
\* next, sorted by start (line 1221).
MaxClfNotes == 3

MaxCandidates == 2

ClfFirstPitch == 60

ClfSteps == {-1, 1}

ClfDurs == {100, 300}

ClfVibrato == {0, 2}

\* canonical labels: bend 0, hamm 1, normal 2, pull 3, slide 4
ClfLabels == 0..4

Middle(row) == row.onset + (row.dur \div 2)

IsClfTable(esn) ==
    \E L \in 0..MaxClfNotes :
        \E st \in [2..L -> ClfSteps], ds \in [1..L -> ClfDurs],
           vs \in [1..L -> ClfVibrato] :
            esn = [i \in 1..L |->
                      [EsnRow(BuildStepNotes(ClfFirstPitch, st, ds, 1, <<>>)[i])
                          EXCEPT !.vibrato = vs[i]]]

IsClfResult(res, esn, labels) ==
    \E K \in 0..MaxCandidates :
        \E from \in [1..K -> 1..(Len(esn) - 1)], ls \in [1..K -> labels] :
            /\ \A k \in 2..K : from[k - 1] <= from[k]
            /\ res = [k \in 1..K |->
                         Candidate(Middle(esn[from[k]]), Middle(esn[from[k] + 1]),
                                   ls[k])]

MergeInit ==
    /\ pc = "merge_and_update_prebend_bend_release"
    /\ IsClfTable(expression_style_note)
    /\ IsClfResult(result_ref, expression_style_note, {0, 3})
    /\ result = result_ref
    /\ note_to_be_deleted = {}
    /\ index_candi = 1
    /\ tech_index_dic = <<>>
    /\ returned = <<>>
    /\ IdleBut({"esn", "clf"})

\* for index_candi, candi_result in enumerate(result): one iteration
MergeStep ==
    /\ pc = "merge_and_update_prebend_bend_release"
    /\ index_candi <= Len(result)
    /\ LET acc == MergeCandidate(index_candi,
                      [esn |-> expression_style_note, result |-> result,
                       note_to_be_deleted |-> note_to_be_deleted])
       IN  /\ expression_style_note' = acc.esn
           /\ result' = acc.result
           /\ note_to_be_deleted' = acc.note_to_be_deleted
    /\ index_candi' = index_candi + 1
    /\ UNCHANGED <<pc, returned, result_ref, tech_index_dic>>
    /\ UNCHANGED <<noteVars, wvVars, lsVars, cadVars, fuseVars, clsVars, batchVars, pipeVars>>

\* expression_style_note = np.delete(...); return expression_style_note
MergeReturn ==
    /\ pc = "merge_and_update_prebend_bend_release"
    /\ index_candi > Len(result)
    /\ returned' = DeleteRows(expression_style_note, note_to_be_deleted, 1)
    /\ pc' = "done"
    /\ UNCHANGED <<expression_style_note, clfVars>>
    /\ UNCHANGED <<noteVars, wvVars, lsVars, cadVars, fuseVars, clsVars, batchVars, pipeVars>>

MergeNext == MergeStep \/ MergeReturn

SpecMerge == MergeInit /\ [][MergeNext]_vars

\* C6: when a bend candidate anchors a merge at row i and the chain ends at
\* row k, and some merged-away row i+1..k carries a non-zero vibrato tag, the
\* merged row i holds the maximum of the vibrato values of rows i+1..k after
\* the merge, which is non-zero.
C6_ChainMergeKeepsVibrato ==
    [][ /\ pc = "merge_and_update_prebend_bend_release"
        /\ index_candi' = index_candi + 1
        /\ result[index_candi].label = 0
        /\ result[index_candi].start # 0
        =>
        \A i \in 1..(Len(expression_style_note) - 1) :
            /\ CoversTwoNotes(expression_style_note, result[index_candi], i)
            /\ \A h \in 1..(i - 1) :
                   ~CoversTwoNotes(expression_style_note, result[index_candi], h)
            =>
            LET k == MergeChainEnd(expression_style_note, result, index_candi,
                                   i + 1).current_index_note
                away == { expression_style_note[n].vibrato : n \in (i + 1)..k }
            IN  away # {0} =>
                    /\ expression_style_note'[i].vibrato = SetMax(away)
                    /\ expression_style_note'[i].vibrato # 0 ]_vars

\* A merge of a chain of two candidates has been made into a row that had no
\* vibrato tag, a merged-away row had one, and the merged row is returned
\* with it.
C6_Witness ==
    /\ pc = "done"
    /\ Len(result_ref) = 2
    /\ note_to_be_deleted = {2, 3}
    /\ expression_style_note[2].vibrato = 0
    /\ expression_style_note[3].vibrato = 2
    /\ Len(returned) = 1
    /\ returned[1].vibrato = 2
    /\ returned[1].dur = Offset(expression_style_note[3])

---------------------------------------------------------------------------
(* update_pull_hamm_slide                                                  *)
(*                                                                         *)
(* tech_index_dic is a function from technique names to labels.            *)

\* pull_index_list, hamm_index_list, slide_index_list (lines 666-686)
IndexList(dic, name) == IF name \in DOMAIN dic THEN {dic[name]} ELSE {}

\* target_tech_index_list (line 688)
TargetTechIndexList(dic) ==
    IndexList(dic, "pull") \cup IndexList(dic, "hamm") \cup IndexList(dic, "slide")

\* t = [k for k, v in tech_index_dic.iteritems() if v == candi_result[-1]][0]
TechOfLabel(dic, label) == CHOOSE k \in DOMAIN dic : dic[k] = label

\* A variant that clears the markers of a transition already marked.
StartStopToggling(esn, index_n, col) ==
    IF esn[index_n][col] = 0 /\ esn[index_n + 1][col] = 0
    THEN [esn EXCEPT ![index_n][col] = 1, ![index_n + 1][col] = 2]
    ELSE [esn EXCEPT ![index_n][col] = 0, ![index_n + 1][col] = 0]

\* Lines 702-708 and 711-717: the start marker 1 and the stop marker 2 are
\* written to column col of rows index_n and index_n + 1 where the column is
\* still zero.
StartStopGuarded(esn, index_n, col) ==
    IF esn[index_n][col] = 0 /\ esn[index_n + 1][col] = 0
    THEN [esn EXCEPT ![index_n][col] = 1, ![index_n + 1][col] = 2]
    ELSE IF esn[index_n][col] # 0 /\ esn[index_n + 1][col] = 0
         THEN [esn EXCEPT ![index_n + 1][col] = 2]
         ELSE esn

\* Lines 720-721: the slide markers are written whatever the rows hold.
StartStop(esn, index_n, col) ==
    [esn EXCEPT ![index_n][col] = 1, ![index_n + 1][col] = 2]

\* Lines 699-721 for a candidate that covers rows index_n and index_n + 1.
TagTransition(esn, index_n, label, dic) ==
    LET t == TechOfLabel(dic, label)
    IN  IF t = "pull" THEN StartStopGuarded(esn, index_n, "pull")
        ELSE IF t = "hamm" THEN StartStopGuarded(esn, index_n, "hamm")
        ELSE IF t = "slide" THEN StartStop(esn, index_n, "slide")
        ELSE esn

\* for index_note, note in enumerate(expression_style_note[:-1])
RECURSIVE PHSNoteLoop(_, _, _, _)
PHSNoteLoop(index_n, cand, dic, esn) ==
    IF index_n >= Len(esn)
    THEN esn
    ELSE PHSNoteLoop(index_n + 1, cand, dic,
             IF CoversTwoNotes(esn, cand, index_n)
             THEN TagTransition(esn, index_n, cand.label, dic)
             ELSE esn)

\* for index_candi, candi_result in enumerate(result)
RECURSIVE PHSCandidateLoop(_, _, _, _)
PHSCandidateLoop(index_c, res, dic, esn) ==
    IF index_c > Len(res)
    THEN esn
    ELSE PHSCandidateLoop(index_c + 1, res, dic,
             IF res[index_c].label \in TargetTechIndexList(dic)
                /\ res[index_c].start # 0
             THEN PHSNoteLoop(1, res[index_c], dic, esn)
             ELSE esn)

\* The array is changed in place and returned.
update_pull_hamm_slide(esn, res_ref, dic) == PHSCandidateLoop(1, res_ref, dic, esn)

\* tech_index_dic_list of the single-model and the double-model deployment
\* (lines 1146-1157)
SingleModelDics ==
    LET all == [bend |-> 0, hamm |-> 1, normal |-> 2, pull |-> 3, slide |-> 4]
    IN  <<all, all, all>>

DoubleModelDics ==
    << [bend |-> 0, hamm |-> 1, normal |-> 2, slide |-> 3],
       [bend |-> 0, normal |-> 1, pull |-> 2, slide |-> 3],
       [bend |-> 0, hamm |-> 1, normal |-> 2, pull |-> 3, slide |-> 4] >>

\* The table is the one main holds at line 1284, whose pull, hamm and slide
\* columns are still zero; the routine is called on it, and then called once
\* more on the table it returned, with any classifier result or with the
\* same one.
PHSInit ==
    /\ pc = "update_pull_hamm_slide"
    /\ \E L \in 0..MaxClfNotes :
          expression_style_note =
              EsnOfNotes(BuildStepNotes(ClfFirstPitch, [k \in 2..L |-> 1],
                                        [k \in 1..L |-> 100], 1, <<>>))
    /\ tech_index_dic = SingleModelDics[3]
    /\ result_ref = <<>>
    /\ result = <<>>
    /\ note_to_be_deleted = {}
    /\ index_candi = 0
    /\ returned = <<>>
    /\ IdleBut({"esn", "clf"})

\* A call of update_pull_hamm_slide on the table with some classifier result.
PHSCall ==
    /\ pc \in {"update_pull_hamm_slide", "done"}
    /\ IsClfResult(result_ref', expression_style_note, ClfLabels)
    /\ result' = result_ref'
    /\ expression_style_note' =
           update_pull_hamm_slide(expression_style_note, result_ref', tech_index_dic)
    /\ returned' = expression_style_note'
    /\ pc' = IF pc = "done" THEN "done, another result" ELSE "done"
    /\ UNCHANGED <<note_to_be_deleted, index_candi, tech_index_dic>>
    /\ UNCHANGED <<noteVars, wvVars, lsVars, cadVars, fuseVars, clsVars, batchVars, pipeVars>>

\* A further call on the returned table with the classifier result of the
\* call before.
PHSCallAgain ==
    /\ pc = "done"
    /\ result' = result_ref
    /\ expression_style_note' =
           update_pull_hamm_slide(expression_style_note, result_ref, tech_index_dic)
    /\ returned' = expression_style_note'
    /\ pc' = "done, same result"
    /\ UNCHANGED <<result_ref, note_to_be_deleted, index_candi, tech_index_dic>>
    /\ UNCHANGED <<noteVars, wvVars, lsVars, cadVars, fuseVars, clsVars, batchVars, pipeVars>>

PHSNext == PHSCall \/ PHSCallAgain

SpecPHS == PHSInit /\ [][PHSNext]_vars

\* C7: a row whose pull, hamm or slide column is non-zero before a call of
\* update_pull_hamm_slide holds the same value in that column after it.
C7_MarkersNeverOverwritten ==
    [][ \A r \in 1..Len(expression_style_note) :
            \A col \in {"pull", "hamm", "slide"} :
                expression_style_note[r][col] # 0 =>
                    expression_style_note'[r][col] = expression_style_note[r][col]
      ]_vars

\* C8: update_pull_hamm_slide applied with R to the table that
\* update_pull_hamm_slide returned for R leaves that table as it is.
C8_SecondApplicationChangesNothing ==
    [][ pc' = "done, same result" =>
            expression_style_note' = expression_style_note ]_vars

\* The routine has been applied twice with a result that marks a pull-off
\* and a hammer-on.
C8_Witness ==
    /\ pc = "done, same result"
    /\ \E c \in 1..Len(result_ref) : result_ref[c].label = 3
    /\ \E c \in 1..Len(result_ref) : result_ref[c].label = 1
    /\ \E r \in 1..Len(expression_style_note) : expression_style_note[r].pull = 2
    /\ \E r \in 1..Len(expression_style_note) : expression_style_note[r].hamm = 1

---------------------------------------------------------------------------
(* main, S.4.3 - S.5.5: classification of the candidates and fusion of     *)
(* the classifier result into the table                                    *)

\* convert_double_model_index_2_single_model: a row whose label is the
\* label of t in tech_index_single is given minus the label of t in
\* tech_index_all; the absolute values are taken at the end.
RECURSIVE RelabelLoop(_, _, _, _)
RelabelLoop(keys, cls_result, tech_index_single, tech_index_all) ==
    IF keys = {}
    THEN cls_result
    ELSE LET t == CHOOSE k \in keys : TRUE
         IN  RelabelLoop(keys \ {t},
                 IF t \in DOMAIN tech_index_all
                 THEN [c \in 1..Len(cls_result) |->
                          IF cls_result[c].label = tech_index_single[t]
                          THEN [cls_result[c] EXCEPT !.label = -tech_index_all[t]]
                          ELSE cls_result[c]]
                 ELSE cls_result,
                 tech_index_single, tech_index_all)

convert_double_model_index_2_single_model(cls_result, single, all) ==
    LET marked == RelabelLoop(DOMAIN single, cls_result, single, all)
    IN  [c \in 1..Len(marked) |-> [marked[c] EXCEPT !.label = Abs(@)]]

\* result_all[np.argsort(result_all[:,0], axis = 0)]
RECURSIVE SortByStart(_)
SortByStart(rows) ==
    IF rows = <<>>
    THEN <<>>
    ELSE LET first == CHOOSE c \in 1..Len(rows) :
                          \A d \in 1..Len(rows) : rows[c].start <= rows[d].start
         IN  <<rows[first]>>
                 \o SortByStart([c \in 1..(Len(rows) - 1) |->
                                    IF c < first THEN rows[c] ELSE rows[c + 1]])

(* The arrays hold binary floating-point numbers.  A time is held here as   *)
(* an integer number of units; a float keeps SignificandBits significant  *)
(* bits (53 in a numpy float64), and the sum or difference of two floats   *)
(* is the exact result rounded to the nearest float, a tie going to the    *)
(* even significand.                                                       *)

SignificandBits == 10

RECURSIVE Pow2(_)
Pow2(k) == IF k = 0 THEN 1 ELSE 2 * Pow2(k - 1)

\* The number of bits of x >= 0.
RECURSIVE BitLen(_)
BitLen(x) == IF x = 0 THEN 0 ELSE 1 + BitLen(x \div 2)

\* x >= 0 rounded to the nearest float.
RoundSig(x) ==
    IF BitLen(x) <= SignificandBits
    THEN x
    ELSE LET q == Pow2(BitLen(x) - SignificandBits)
             lo == (x \div q) * q
         IN  IF 2 * (x - lo) < q THEN lo
             ELSE IF 2 * (x - lo) > q THEN lo + q
             ELSE IF (x \div q) % 2 = 0 THEN lo ELSE lo + q

\* a + b and a - b (a >= b >= 0) in floating point
FAdd(a, b) == RoundSig(a + b)

FSub(a, b) == RoundSig(a - b)

\* Common.note_2_ts: ts = note[:,1:3].copy(); ts[:,1] = ts[:,0] + ts[:,1]
note_2_ts(arr) ==
    [i \in 1..Len(arr) |->
        Segment(arr[i].onset, FAdd(arr[i].onset, arr[i].dur))]

\* update_ts with the stacked list left as it is, without the sort.
update_ts_unsorted(ts, time_segment, tech) ==
    ts \o [i \in 1..Len(time_segment) |->
              Candidate(time_segment[i].start, time_segment[i].end,
                        TechIndex(tech))]

\* Common.update_ts: the segments, each with the index of the technique in
\* a third column, are stacked under the list and the list is sorted by start.
update_ts(ts, time_segment, tech) ==
    SortByStart(ts \o [i \in 1..Len(time_segment) |->
                          Candidate(time_segment[i].start, time_segment[i].end,
                                    TechIndex(tech))])

\* answer_tech_index_dic of convert_index_clf_cls_2_anno_tech
AnswerTechIndexDic ==
    [bend |-> 4, release |-> 5, pull |-> 6, hamm |-> 7, slide |-> 8,
     vibrato |-> 11]

\* tech_index_dic_pseudo: with pull and without hamm, bend is renamed release
TechIndexDicPseudo(dic) ==
    IF "pull" \in DOMAIN dic /\ "hamm" \notin DOMAIN dic
    THEN [t \in (DOMAIN dic \ {"bend"}) \cup {"release"} |->
             IF t = "release" THEN dic["bend"] ELSE dic[t]]
    ELSE dic

\* convert_index_clf_cls_2_anno_tech: the labels of the classifier become the
\* column indices of the techniques; the loop and the final abs are those of
\* convert_double_model_index_2_single_model.
convert_index_clf_cls_2_anno_tech(cls_result, dic) ==
    convert_double_model_index_2_single_model(cls_result, TechIndexDicPseudo(dic),
                                              AnswerTechIndexDic)

\* Lines 1179-1184 for the result of one candidate type: nothing when there
\* is no candidate.
TsWithClsResult(ts, cls_result, dic) ==
    IF cls_result = <<>>
    THEN ts
    ELSE SortByStart(ts \o convert_index_clf_cls_2_anno_tech(cls_result, dic))

\* tech_index_dic_list (lines 1146-1157)
TechIndexDicList(mode) ==
    IF mode = "single_model" THEN SingleModelDics ELSE DoubleModelDics

LabelsOf(dic) == { dic[k] : k \in DOMAIN dic }

\* The candidates of one direction: the picked transitions of the table whose
\* pitch step has the given sign, each from the middle of its first note to
\* the middle of its second, with the label the classifier predicted.
CandidatesOf(esn, picked, ls, sign) ==
    LET Picked(i) ==
            i \in picked /\ Sign(esn[i + 1].pitch - esn[i].pitch) = sign
        index == SelectSeq([i \in 1..(Len(esn) - 1) |-> i], Picked)
    IN  [c \in 1..Len(index) |->
            Candidate(Middle(esn[index[c]]), Middle(esn[index[c] + 1]),
                      ls[index[c]])]

\* The pitch steps between the notes main holds at S.4.3: a semitone down
\* or up, or a major third up.
FusionSteps == ClfSteps \cup {4}

FusionInit ==
    /\ pc = "S.4.3"
    /\ cls_mode \in {"single_model", "double_model"}
    /\ \E L \in 0..MaxClfNotes :
        \E st \in [2..L -> FusionSteps] :
            expression_style_note =
                EsnOfNotes(BuildStepNotes(ClfFirstPitch, st,
                                          [k \in 1..L |-> 100], 1, <<>>))
    /\ ascending_cls_result = <<>>
    /\ descending_cls_result = <<>>
    /\ result_all = <<>>
    /\ tech_index_dic = <<>>
    /\ result_ref = <<>>
    /\ result = <<>>
    /\ note_to_be_deleted = {}
    /\ index_candi = 0
    /\ returned = <<>>
    /\ IdleBut({"esn", "clf", "cls"})

\* Lines 1160-1184: for each candidate type in turn, tech_index_dic is bound
\* to the dictionary of that type, the candidates are classified and a
\* non-empty result is saved to the cls_result file of the type.
Classify ==
    /\ pc = "S.4.3"
    /\ \E picked \in SUBSET (1..(Len(expression_style_note) - 1)) :
        \E ls \in [1..(Len(expression_style_note) - 1) -> ClfLabels] :
            /\ \A i \in 1..(Len(expression_style_note) - 1) :
                   IF i \notin picked
                   THEN ls[i] = 0
                   ELSE ls[i] \in LabelsOf(TechIndexDicList(cls_mode)[
                            IF expression_style_note[i + 1].pitch
                                   > expression_style_note[i].pitch
                            THEN 1 ELSE 2])
            /\ ascending_cls_result' =
                   CandidatesOf(expression_style_note, picked, ls, 1)
            /\ descending_cls_result' =
                   CandidatesOf(expression_style_note, picked, ls, -1)
    /\ tech_index_dic' = TechIndexDicList(cls_mode)[2]
    /\ expression_style_ts' =
           TsWithClsResult(
               TsWithClsResult(expression_style_ts, ascending_cls_result',
                               TechIndexDicList(cls_mode)[1]),
               descending_cls_result', TechIndexDicList(cls_mode)[2])
    /\ printed' = Append(printed, "bend, hammer on, pull off, slide")
    /\ pc' = "S.4.3 combine"
    /\ UNCHANGED <<esnVars, cls_mode, result_all>>
    /\ UNCHANGED <<result_ref, result, note_to_be_deleted, index_candi>>
    /\ UNCHANGED <<noteVars, wvVars, lsVars, cadVars, fuseVars, batchVars>>

\* np.loadtxt of a cls_result file: no file raises IOError, and a file of
\* one row is loaded as a one-dimensional array, whose [:,-1] raises
\* IndexError in convert_double_model_index_2_single_model.
LoadedAndConverted(rows, tech_index_single) ==
    IF rows = <<>>
    THEN <<>>
    ELSE convert_double_model_index_2_single_model(
             rows, tech_index_single, TechIndexDicList(cls_mode)[3])

\* Lines 1207-1221
Combine ==
    /\ pc = "S.4.3 combine"
    /\ IF Len(ascending_cls_result) = 1 \/ Len(descending_cls_result) = 1
       THEN /\ pc' = "IndexError"
            /\ UNCHANGED result_all
       ELSE /\ result_all' =
                   SortByStart(
                       LoadedAndConverted(ascending_cls_result,
                                          TechIndexDicList(cls_mode)[1])
                       \o LoadedAndConverted(descending_cls_result,
                                             TechIndexDicList(cls_mode)[2]))
            /\ pc' = "S.4.4"
    /\ UNCHANGED <<esnVars, clfVars>>
    /\ UNCHANGED <<cls_mode, ascending_cls_result, descending_cls_result>>
    /\ UNCHANGED <<noteVars, wvVars, lsVars, cadVars, fuseVars, batchVars, pipeVars>>

\* Lines 1243-1246
MergeBend ==
    /\ pc = "S.4.4"
    /\ IF result_all # <<>>
       THEN expression_style_note' =
                merge_and_update_prebend_bend_release(expression_style_note,
                                                      result_all).ret
       ELSE UNCHANGED expression_style_note
    /\ printed' = IF result_all # <<>>
                   THEN Append(printed, "merging bended notes")
                   ELSE printed
    /\ pc' = "S.5.5"
    /\ UNCHANGED <<returned, clfVars, clsVars, expression_style_ts>>
    /\ UNCHANGED <<noteVars, wvVars, lsVars, cadVars, fuseVars, batchVars>>

\* Lines 1281-1284
UpdatePullHammSlide ==
    /\ pc = "S.5.5"
    /\ IF result_all # <<>>
       THEN expression_style_note' =
                update_pull_hamm_slide(expression_style_note, result_all,
                                       tech_index_dic)
       ELSE UNCHANGED expression_style_note
    /\ printed' = IF result_all # <<>>
                   THEN Append(printed, "update pull-off, hammer-on and slide")
                   ELSE printed
    /\ pc' = "S.6"
    /\ UNCHANGED <<returned, clfVars, clsVars, expression_style_ts>>
    /\ UNCHANGED <<noteVars, wvVars, lsVars, cadVars, fuseVars, batchVars>>

FusionNext == Classify \/ Combine \/ MergeBend \/ UpdatePullHammSlide

SpecFusion == FusionInit /\ [][FusionNext]_vars

\* C9: in a double-model deployment the tagging rule of S.5.5 reads the
\* labels of result_all in the canonical space (bend 0, hamm 1, normal 2,
\* pull 3, slide 4): the table it leaves is the one update_pull_hamm_slide
\* computes with the canonical dictionary.
C9_CanonicalLabelSpace ==
    [][ pc = "S.5.5" /\ cls_mode = "double_model" /\ result_all # <<>> =>
            expression_style_note' =
                update_pull_hamm_slide(expression_style_note, result_all,
                                       DoubleModelDics[3]) ]_vars

---------------------------------------------------------------------------
(* main, the loop over the audio files                                     *)
(*                                                                         *)
(* An audio file is the record of the input files that exist for it.  The  *)
(* names MIDI_smooth_melody, raw_melody and raw_note are unbound (0) or    *)
(* bound to the data loaded for the item of that position.                 *)

MaxAudioFiles == 3

AudioFile(m, r, n) == [melody |-> m, raw_melody |-> r, note |-> n]

\* try: X = np.loadtxt(path) / except IOError: print ...
LoadOrKeep(bound, exists, item) == IF exists THEN item ELSE bound

BatchInit ==
    /\ pc = "for f"
    /\ \E N \in 0..MaxAudioFiles :
          audio_files \in [1..N -> { AudioFile(m, r, n) : m, r, n \in BOOLEAN }]
    /\ f = 0
    /\ MIDI_smooth_melody = 0
    /\ raw_melody = 0
    /\ raw_note = 0
    /\ esn_files = {}
    /\ IdleBut({"batch"})

\* Lines 903-924: the next audio file is taken and its inputs are loaded.
LoadInputs ==
    /\ pc = "for f"
    /\ f < Len(audio_files)
    /\ f' = f + 1
    /\ MIDI_smooth_melody' =
           LoadOrKeep(MIDI_smooth_melody, audio_files[f + 1].melody, f + 1)
    /\ raw_melody' = LoadOrKeep(raw_melody, audio_files[f + 1].raw_melody, f + 1)
    /\ raw_note' = LoadOrKeep(raw_note, audio_files[f + 1].note, f + 1)
    /\ pc' = "S.1"
    /\ UNCHANGED <<audio_files, esn_files>>
    /\ UNCHANGED <<noteVars, wvVars, lsVars, cadVars, esnVars, fuseVars, clfVars,
                   clsVars, pipeVars>>

\* Lines 939-1446: the stages read raw_note (line 941), MIDI_smooth_melody
\* (line 987) and raw_melody (line 1393); reading an unbound name raises
\* NameError, which nothing catches.  Otherwise the .esn file of the item is
\* written from the data the names are bound to.
RunPipeline ==
    /\ pc = "S.1"
    /\ IF raw_note = 0 \/ MIDI_smooth_melody = 0 \/ raw_melody = 0
       THEN /\ pc' = "NameError"
            /\ UNCHANGED esn_files
       ELSE /\ esn_files' = esn_files \cup
                   { [item |-> f, raw_note |-> raw_note,
                      MIDI_smooth_melody |-> MIDI_smooth_melody,
                      raw_melody |-> raw_melody] }
            /\ pc' = "for f"
    /\ UNCHANGED <<audio_files, f, MIDI_smooth_melody, raw_melody, raw_note>>
    /\ UNCHANGED <<noteVars, wvVars, lsVars, cadVars, esnVars, fuseVars, clfVars,
                   clsVars, pipeVars>>

\* The loop has run through audio_files and main returns.
BatchEnd ==
    /\ pc = "for f"
    /\ f = Len(audio_files)
    /\ pc' = "returned"
    /\ UNCHANGED batchVars
    /\ UNCHANGED <<noteVars, wvVars, lsVars, cadVars, esnVars, fuseVars, clfVars,
                   clsVars, pipeVars>>

BatchNext == LoadInputs \/ RunPipeline \/ BatchEnd

SpecBatch == BatchInit /\ [][BatchNext]_vars

HasAllInputs(a) == a.melody /\ a.raw_melody /\ a.note

\* C10: when the run has ended, by returning or by an error, the .esn file
\* of every audio file that has all its inputs has been written, whatever
\* happened to the other audio files.
C10_FailureIsolation ==
    pc \in {"returned", "NameError"} =>
        \A k \in 1..Len(audio_files) :
            HasAllInputs(audio_files[k]) =>
                \E e \in esn_files : e.item = k

\* C11: every .esn file written for an audio file was computed from the
\* notes, the smoothed melody and the raw melody loaded for that audio file,
\* never from data loaded for an audio file processed before it.
C11_CrossItemIndependence ==
    \A e \in esn_files :
        /\ e.raw_note = e.item
        /\ e.MIDI_smooth_melody = e.item
        /\ e.raw_melody = e.item

---------------------------------------------------------------------------
(* main, the stages S.1 to S.6 for one audio file                          *)

\* WildVibrato.detect (lines 222-244)
WildVibrato_detect(raw) ==
    LET super == identify_serrated_pattern(raw, 2)
        wild == identify_serrated_pattern(super.merged_notes, 1)
        ts1 == update_ts(<<>>, note_2_ts(super.wild_vibrato), "vibrato")
        ts2 == update_ts(ts1, note_2_ts(wild.wild_vibrato), "vibrato")
        esn1 == update_esn(EsnOfNotes(wild.merged_notes), super.wild_vibrato,
                           "vibrato", 2).ret
        esn2 == update_esn(esn1, wild.wild_vibrato, "vibrato", 2).ret
    IN  [esn |-> esn2, ts |-> ts2]

\* for r_mn_r in range(r_mn+1, len(note)), lines 422-431: the duration the
\* loop assigns to long_slide_dur, in a list that is empty when the loop
\* ends without assigning it.
RECURSIVE LongSlideDurLoop(_, _, _, _)
LongSlideDurLoop(r_mn_r, seg, arr, long_slide_onset) ==
    IF r_mn_r > Len(arr)
    THEN <<>>
    ELSE IF Offset(arr[r_mn_r]) >= seg.end
    THEN IF arr[r_mn_r].onset > seg.end
         THEN <<seg.end - long_slide_onset>>
         ELSE <<Offset(arr[r_mn_r]) - long_slide_onset>>
    ELSE LongSlideDurLoop(r_mn_r + 1, seg, arr, long_slide_onset)

\* for r_mn in range(len(note)), lines 416-436.  acc.long_slide_dur is the
\* local variable, empty while it is unbound; reading it unbound at line 435
\* raises UnboundLocalError, and a value left by an earlier iteration is
\* read as it is.
RECURSIVE LongSlideNoteLoop(_, _, _, _)
LongSlideNoteLoop(r_mn, seg, arr, acc) ==
    IF r_mn > Len(arr) \/ acc.error
    THEN acc
    ELSE IF seg.start > arr[r_mn].onset /\ seg.start < Offset(arr[r_mn])
    THEN LET assigned == LongSlideDurLoop(r_mn + 1, seg, arr, arr[r_mn].onset)
             long_slide_dur == IF assigned # <<>> THEN assigned
                               ELSE acc.long_slide_dur
         IN  IF long_slide_dur = <<>>
             THEN [acc EXCEPT !.error = TRUE]
             ELSE LongSlideNoteLoop(r_mn + 1, seg, arr,
                      [long_slide |->
                           Append(acc.long_slide,
                                  Note(arr[r_mn].pitch, arr[r_mn].onset,
                                       long_slide_dur[1])),
                       long_slide_dur |-> long_slide_dur,
                       error |-> FALSE])
    ELSE LongSlideNoteLoop(r_mn + 1, seg, arr, acc)

\* for r_lss in range(len(long_slide_sec))
RECURSIVE LongSlideSecLoop(_, _, _, _)
LongSlideSecLoop(r_lss, lss, arr, acc) ==
    IF r_lss > Len(lss) \/ acc.error
    THEN acc
    ELSE LongSlideSecLoop(r_lss + 1, lss, arr,
                          LongSlideNoteLoop(1, lss[r_lss], arr, acc))

\* LongSlide.long_slide_sec_2_long_slide (lines 413-437)
long_slide_sec_2_long_slide(lss, arr) ==
    LongSlideSecLoop(1, lss, arr,
                     [long_slide |-> <<>>, long_slide_dur |-> <<>>,
                      error |-> FALSE])

\* LongSlide.detect with the back-projected notes, not the ladder segments,
\* pushed into the time segment list.
LongSlide_detect_pushing_notes(esn, ts, lss) ==
    LET r == long_slide_sec_2_long_slide(lss, esn)
    IN  [esn |-> IF r.error THEN esn
                 ELSE update_esn(esn, r.long_slide, "slide out", 1).ret,
         ts |-> update_ts(ts, note_2_ts(r.long_slide), "slide out"),
         error |-> r.error]

\* LongSlide.detect from line 402 on, for the ladders lss of the melody
LongSlide_detect(esn, ts, lss) ==
    LET r == long_slide_sec_2_long_slide(lss, esn)
    IN  [esn |-> IF r.error THEN esn
                 ELSE update_esn(esn, r.long_slide, "slide out", 1).ret,
         ts |-> update_ts(ts, lss, "slide out"),
         error |-> r.error]

\* SlowBend.detect (lines 494-508)
SlowBend_detect(esn, ts, ascending_pattern, descending_pattern) ==
    LET slow_bend_note ==
            long_CAD_pattern_detection(esn, ascending_pattern).note_of_long_CAD
        slow_release_note ==
            long_CAD_pattern_detection(esn, descending_pattern).note_of_long_CAD
        ts1 == update_ts(ts, note_2_ts(slow_bend_note), "bend")
        ts2 == update_ts(ts1, note_2_ts(slow_release_note), "release")
        esn1 == update_esn(esn, slow_bend_note, "bend", 3).ret
        esn2 == update_esn(esn1, slow_release_note, "release", 3).ret
    IN  [esn |-> esn2, ts |-> ts2]

\* SoftVibrato.detect (lines 590-614); verdict holds the rows on whose pitch
\* contour the estimator finds a frequency and an extent.  esn: the table
\* returned; arr: the table passed in, as update_esn leaves it.
SoftVibrato_detect(esn, ts, verdict) ==
    LET Employed(i) == esn[i].vibrato = 0 /\ i \in verdict
        index == SelectSeq([i \in 1..Len(esn) |-> i], Employed)
        vibrato == [k \in 1..Len(index) |->
                       Note(esn[index[k]].pitch, esn[index[k]].onset,
                            esn[index[k]].dur)]
    IN  [esn |-> update_esn(esn, vibrato, "vibrato", 1).ret,
         arr |-> update_esn(esn, vibrato, "vibrato", 1).arr,
         ts |-> update_ts(ts, note_2_ts(vibrato), "vibrato")]

(* The raw notes of the audio file: contiguous notes of 100 ms from time 0, *)
(* each one semitone above or below its predecessor.  The melody holds no  *)
(* ladder or one ladder of LadderMinSteps notes of the shortest transition *)
(* duration that starts in the middle of a note; each CAD pattern list     *)
(* holds no pattern or one that runs from the middle of a note to the      *)
(* middle of the second note after it; the vibrato estimator finds a       *)
(* vibrato on at most MaxSoftVibrato notes.  The file holds as many notes   *)
(* as the shortest serration, or fewer.                                    *)

MaxPipeNotes == SerrationMinNotes

MaxSoftVibrato == 1

PipeFirstPitch == 60

PipeSteps == {-1, 1}

\* LongSlide.frame2note of a melody with one descending ladder from time t
LadderMelody(t) ==
    [k \in 1..(LadderMinSteps + 1) |->
        Note(LSFirstPitch - k, t + (k - 1) * min_transition_note_duration,
             min_transition_note_duration)]

MelodiesOf(esn) ==
    {<<>>} \cup { LadderMelody(Middle(esn[a])) : a \in 1..Len(esn) }

CADPatternsOf(esn) ==
    {<<>>} \cup { <<Segment(Middle(esn[n]), Middle(esn[n + 2]))>> :
                      n \in 1..(Len(esn) - 2) }

PipelineInit ==
    /\ pc = "S.1"
    /\ \E L \in 0..MaxPipeNotes :
        \E st \in [2..L -> PipeSteps] :
            raw_note = BuildStepNotes(PipeFirstPitch, st,
                                      [k \in 1..L |-> 100], 1, <<>>)
    /\ cls_mode \in {"single_model", "double_model"}
    /\ audio_files = <<>>
    /\ f = 0
    /\ MIDI_smooth_melody = 0
    /\ raw_melody = 0
    /\ esn_files = {}
    /\ ascending_cls_result = <<>>
    /\ descending_cls_result = <<>>
    /\ result_all = <<>>
    /\ IdleBut({"cls", "batch"})

\* S.1, lines 939-941
DetectWildVibrato ==
    /\ pc = "S.1"
    /\ LET r == WildVibrato_detect(raw_note)
       IN  /\ expression_style_note' = r.esn
           /\ expression_style_ts' = r.ts
    /\ printed' = Append(printed, "wild vibrato")
    /\ pc' = "S.2"
    /\ UNCHANGED <<returned, lsVars, clfVars, clsVars>>
    /\ UNCHANGED <<noteVars, wvVars, cadVars, fuseVars, batchVars>>

\* S.2, lines 986-990
DetectLongSlide ==
    /\ pc = "S.2"
    /\ \E melody \in MelodiesOf(expression_style_note) :
        LET r == LongSlide_detect(expression_style_note, expression_style_ts,
                                  LongSlideLadders(melody))
        IN  /\ long_slide_sec' = LongSlideLadders(melody)
            /\ IF r.error
               THEN /\ pc' = "UnboundLocalError"
                    /\ UNCHANGED <<expression_style_note, expression_style_ts>>
               ELSE /\ pc' = "S.3"
                    /\ expression_style_note' = r.esn
                    /\ expression_style_ts' = r.ts
    /\ printed' = Append(printed, "slide in, slide out")
    /\ UNCHANGED <<returned, quantised_melody, clfVars, clsVars>>
    /\ UNCHANGED <<noteVars, wvVars, cadVars, fuseVars, batchVars>>

\* DetectSlowBend followed at once by the soft vibrato stage.
DetectSlowBendThenVibrato ==
    /\ pc = "S.3"
    /\ \E ascending_pattern \in CADPatternsOf(expression_style_note),
          descending_pattern \in CADPatternsOf(expression_style_note) :
        LET r == SlowBend_detect(expression_style_note, expression_style_ts,
                                 ascending_pattern, descending_pattern)
        IN  /\ expression_style_note' = r.esn
            /\ expression_style_ts' = r.ts
    /\ printed' = Append(printed, "slow bend")
    /\ pc' = "S.6"
    /\ UNCHANGED <<returned, lsVars, clfVars, clsVars>>
    /\ UNCHANGED <<noteVars, wvVars, cadVars, fuseVars, batchVars>>

\* S.3, lines 1055-1057
DetectSlowBend ==
    /\ pc = "S.3"
    /\ \E ascending_pattern \in CADPatternsOf(expression_style_note),
          descending_pattern \in CADPatternsOf(expression_style_note) :
        LET r == SlowBend_detect(expression_style_note, expression_style_ts,
                                 ascending_pattern, descending_pattern)
        IN  /\ expression_style_note' = r.esn
            /\ expression_style_ts' = r.ts
    /\ printed' = Append(printed, "slow bend")
    /\ pc' = "S.4.3"
    /\ UNCHANGED <<returned, lsVars, clfVars, clsVars>>
    /\ UNCHANGED <<noteVars, wvVars, cadVars, fuseVars, batchVars>>

\* S.6, lines 1392-1394
DetectSoftVibrato ==
    /\ pc = "S.6"
    /\ \E verdict \in SUBSET (1..Len(expression_style_note)) :
        /\ Cardinality(verdict) <= MaxSoftVibrato
        /\ LET r == SoftVibrato_detect(expression_style_note,
                                       expression_style_ts, verdict)
           IN  /\ expression_style_note' = r.esn
               /\ expression_style_ts' = r.ts
    /\ printed' = Append(printed, "vibrato")
    /\ pc' = "S.7"
    /\ UNCHANGED <<returned, lsVars, clfVars, clsVars>>
    /\ UNCHANGED <<noteVars, wvVars, cadVars, fuseVars, batchVars>>

PipelineNext ==
    \/ DetectWildVibrato
    \/ DetectLongSlide
    \/ DetectSlowBend
    \/ Classify
    \/ Combine
    \/ MergeBend
    \/ UpdatePullHammSlide
    \/ DetectSoftVibrato

SpecPipeline == PipelineInit /\ [][PipelineNext]_vars

\* The stages in the order main starts them.
StageOrder ==
    << "wild vibrato", "slide in, slide out", "slow bend",
       "bend, hammer on, pull off, slide", "merging bended notes",
       "update pull-off, hammer-on and slide", "vibrato" >>

Rank(stage) == CHOOSE i \in DOMAIN StageOrder : StageOrder[i] = stage

\* The stages main runs whatever the classifier returns.
Unconditional ==
    { "wild vibrato", "slide in, slide out", "slow bend",
      "bend, hammer on, pull off, slide", "vibrato" }

\* C12 as stated: the per-note vibrato stage runs before the fusion of the
\* classifier results, so whenever the bend-chain merge or the
\* pull/hammer/slide tagging has started, the vibrato stage has started
\* before it.
C12_VibratoBeforeFusion ==
    \A i \in DOMAIN printed :
        printed[i] \in { "merging bended notes",
                         "update pull-off, hammer-on and slide" }
            => \E j \in 1..(i - 1) : printed[j] = "vibrato"

\* C12, amended: the stages start strictly in the order wild vibrato, long
\* slide, slow bend/release, candidate classification, bend-chain merge,
\* pull/hammer/slide tagging, per-note vibrato; a stage has started only
\* after every unconditional stage that precedes it in this order; and the
\* merge and the tagging start only when the classifier returned a result.
C12_StageOrder ==
    /\ \A i, j \in DOMAIN printed :
           i < j => Rank(printed[i]) < Rank(printed[j])
    /\ \A i \in DOMAIN printed :
           \A stage \in Unconditional :
               Rank(stage) < Rank(printed[i])
                   => \E j \in 1..(i - 1) : printed[j] = stage
    /\ \A i \in DOMAIN printed :
           printed[i] \notin Unconditional => result_all # <<>>

\* A run in which all seven stages have started.
C12_Witness ==
    /\ pc = "S.7"
    /\ printed = StageOrder

\* The number of rows of a list that are equal to x.
Count(x, rows) == Cardinality({ i \in DOMAIN rows : rows[i] = x })

SortedByStart(ts) ==
    \A i \in 1..(Len(ts) - 1) : ts[i].start <= ts[i + 1].start

\* C13: the TS list starts empty; after every stage it is sorted ascending
\* by start and holds every row it held before the stage, as many times;
\* the update_ts call of the long slide stage adds exactly one row (start,
\* end, 10) per ladder segment, and the classification stage adds exactly
\* one row per classified candidate.
C13_TSLifecycle ==
    /\ expression_style_ts = <<>>
    /\ [][ /\ SortedByStart(expression_style_ts')
           /\ \A i \in DOMAIN expression_style_ts :
                  Count(expression_style_ts[i], expression_style_ts')
                      >= Count(expression_style_ts[i], expression_style_ts)
           /\ pc = "S.2" /\ pc' = "S.3" =>
                  /\ Len(expression_style_ts')
                         = Len(expression_style_ts) + Len(long_slide_sec')
                  /\ \A k \in DOMAIN long_slide_sec' :
                         LET row == Candidate(long_slide_sec'[k].start,
                                              long_slide_sec'[k].end,
                                              TechIndex("slide out"))
                         IN  Count(row, expression_style_ts')
                                 > Count(row, expression_style_ts)
           /\ pc = "S.4.3" =>
                  Len(expression_style_ts')
                      = Len(expression_style_ts) + Len(ascending_cls_result')
                            + Len(descending_cls_result') ]_vars

\* A run that ends with a TS list holding a long slide segment, a slow bend
\* segment, a classified candidate and a per-note vibrato segment.
C13_Witness ==
    /\ pc = "S.7"
    /\ \E i, j, k, l \in DOMAIN expression_style_ts :
        /\ expression_style_ts[i].label = TechIndex("slide out")
        /\ expression_style_ts[j].label = TechIndex("bend")
        /\ expression_style_ts[k].label = TechIndex("slide")
        /\ expression_style_ts[l].label = TechIndex("vibrato")
        /\ long_slide_sec # <<>>
        /\ result_all # <<>>

Onsets(arr) == [i \in DOMAIN arr |-> arr[i].onset]

\* a is b with some entries left out, the others in the order of b.
RECURSIVE IsSubsequence(_, _)
IsSubsequence(a, b) ==
    IF a = <<>> THEN TRUE
    ELSE IF b = <<>> THEN FALSE
    ELSE IF Head(a) = Head(b) THEN IsSubsequence(Tail(a), Tail(b))
    ELSE IsSubsequence(a, Tail(b))

\* C14: the table created by the wild vibrato stage has the onsets of raw
\* notes, in their order; every later stage leaves a table that has no more
\* rows than before and whose onsets are onsets of the table before the
\* stage, in the same order, so that an onset that has left the table never
\* comes back into it.
C14_ESNLifecycle ==
    [][ /\ pc = "S.1" =>
               IsSubsequence(Onsets(expression_style_note'), Onsets(raw_note))
        /\ pc # "S.1" =>
               /\ Len(expression_style_note') <= Len(expression_style_note)
               /\ IsSubsequence(Onsets(expression_style_note'),
                                Onsets(expression_style_note)) ]_vars

\* A run in which the long slide stage and the bend-chain merge have each
\* taken a row out of the table.
C14_Witness ==
    /\ pc = "S.7"
    /\ long_slide_sec # <<>>
    /\ \E i \in DOMAIN expression_style_note :
           expression_style_note[i].slideOut # 0
    /\ \E i \in DOMAIN expression_style_note :
           expression_style_note[i].bend # 0
    /\ Len(expression_style_note) + 2 <= Len(raw_note)

\* No row ends after the onset of the row that follows it.
Consistent(arr) ==
    \A i \in 1..(Len(arr) - 1) : Offset(arr[i]) <= arr[i + 1].onset

\* C15: the raw notes being in onset order with no note extending past the
\* onset of the next, after every stage no row of the table has onset +
\* duration greater than the onset of the row that follows it.
C15_IntervalConsistency ==
    Consistent(raw_note) => Consistent(expression_style_note)

\* A run in which the long slide stage and the bend-chain merge have each
\* lengthened a row over the rows they removed, and rows follow it.
C15_Witness ==
    /\ pc = "S.7"
    /\ Consistent(raw_note)
    /\ \E i, j \in 1..(Len(expression_style_note) - 1) :
        /\ expression_style_note[i].slideOut # 0
        /\ expression_style_note[i].dur > 100
        /\ expression_style_note[j].bend # 0
        /\ expression_style_note[j].dur > 100

\* C16: in every table of the pipeline preBend, bend and release hold an
\* integer in 0..3, pull, hamm and slide hold 0, 1 or 2, slideIn and slideOut
\* hold 0, 1 or 2, and vibrato holds 0, 1 or 2.
C16_ValueRanges ==
    \A i \in DOMAIN expression_style_note :
        /\ expression_style_note[i].preBend \in 0..3
        /\ expression_style_note[i].bend \in 0..3
        /\ expression_style_note[i].release \in 0..3
        /\ expression_style_note[i].pull \in 0..2
        /\ expression_style_note[i].hamm \in 0..2
        /\ expression_style_note[i].slide \in 0..2
        /\ expression_style_note[i].slideIn \in 0..2
        /\ expression_style_note[i].slideOut \in 0..2
        /\ expression_style_note[i].vibrato \in 0..2

---------------------------------------------------------------------------
(* SoftVibrato.detect on a table whose rows may share an onset             *)

(* The table: rows in onset order, each starting with its predecessor or   *)
(* 100 ms after it and lasting 100 or 200 ms, the vibrato column 0 or 2    *)
(* and the other technique columns 0.                                      *)

MaxSVNotes == 3

SVFirstPitch == 60

SVGaps == {0, 100}

SVDurs == {100, 200}

SVVibrato == {0, 2}

RECURSIVE BuildSVTable(_, _, _, _, _)
BuildSVTable(gs, ds, vs, k, acc) ==
    IF k > Len(ds) THEN acc
    ELSE BuildSVTable(gs, ds, vs, k + 1,
            Append(acc,
                   [EsnRow(Note(SVFirstPitch + k,
                                IF k = 1 THEN 0 ELSE acc[k - 1].onset + gs[k],
                                ds[k]))
                       EXCEPT !.vibrato = vs[k]]))

SVInit ==
    /\ pc = "SoftVibrato.detect"
    /\ \E L \in 0..MaxSVNotes :
        \E gs \in [2..L -> SVGaps], ds \in [1..L -> SVDurs],
           vs \in [1..L -> SVVibrato] :
            expression_style_note = BuildSVTable(gs, ds, vs, 1, <<>>)
    /\ returned = <<>>
    /\ expression_style_ts = <<>>
    /\ printed = <<>>
    /\ IdleBut({"esn", "pipe"})

\* SV.detect(expression_style_note, expression_style_ts), for any verdict of
\* the estimator on each row
SVDetect ==
    /\ pc = "SoftVibrato.detect"
    /\ \E verdict \in SUBSET (1..Len(expression_style_note)) :
        LET r == SoftVibrato_detect(expression_style_note,
                                    expression_style_ts, verdict)
        IN  /\ expression_style_note' = r.arr
            /\ returned' = r.esn
            /\ expression_style_ts' = r.ts
    /\ pc' = "done"
    /\ UNCHANGED <<printed, clfVars, clsVars>>
    /\ UNCHANGED <<noteVars, wvVars, lsVars, cadVars, fuseVars, batchVars>>

SVNext == SVDetect

SpecSV == SVInit /\ [][SVNext]_vars

\* C17: whatever the table and the verdicts of the estimator, no row whose
\* vibrato column is 2 before SoftVibrato.detect has vibrato 1 after it.
C17_NoDowngrade ==
    [][ pc = "SoftVibrato.detect" =>
            \A i \in DOMAIN expression_style_note :
                expression_style_note[i].vibrato = 2
                    => expression_style_note'[i].vibrato # 1 ]_vars

---------------------------------------------------------------------------
(* Common.note_2_ts on a note array                                        *)

(* The notes: in onset order, with onsets and durations that are floats,   *)
(* small ones and ones next to the first power of two at which the floats  *)
(* are two units apart.                                                    *)

MaxN2TNotes == 2

N2TPitch == 60

N2TOnsets ==
    {0, 1, Pow2(SignificandBits) - 1, Pow2(SignificandBits) + 2}

N2TDurs == {1, 2, 3}

N2TInit ==
    /\ pc = "note_2_ts"
    /\ \E L \in 0..MaxN2TNotes :
        \E os \in [1..L -> N2TOnsets], ds \in [1..L -> N2TDurs] :
            /\ \A k \in 2..L : os[k - 1] <= os[k]
            /\ note = [k \in 1..L |-> Note(N2TPitch, os[k], ds[k])]
    /\ returned = <<>>
    /\ expression_style_note = <<>>
    /\ IdleBut({"note", "esn"})

\* time_segment = Common.note_2_ts(note): the slice is copied, so the note
\* array is not written.
N2TConvert ==
    /\ pc = "note_2_ts"
    /\ returned' = note_2_ts(note)
    /\ pc' = "done"
    /\ UNCHANGED <<note, expression_style_note>>
    /\ UNCHANGED <<wvVars, lsVars, cadVars, fuseVars, clfVars, clsVars, batchVars, pipeVars>>

N2TNext == N2TConvert

SpecN2T == N2TInit /\ [][N2TNext]_vars

\* C18: note_2_ts returns one segment per note, in the order of the notes,
\* that starts at the onset of the note and whose end minus its start is
\* exactly the duration of the note; the note array is left as it was.
C18_RoundTrip ==
    [][ pc = "note_2_ts" =>
            /\ note' = note
            /\ Len(returned') = Len(note)
            /\ \A i \in DOMAIN note :
                   /\ returned'[i].start = note[i].onset
                   /\ FSub(returned'[i].end, returned'[i].start) = note[i].dur
      ]_vars

---------------------------------------------------------------------------
(* C19 *)

\* The first row after r whose offset is at or after the time `end', or 0.
StopRow(esn, r, end) ==
    IF \E s \in (r + 1)..Len(esn) : Offset(esn[s]) >= end
    THEN SetMin({ s \in (r + 1)..Len(esn) : Offset(esn[s]) >= end })
    ELSE 0

\* C19: in a call of update_esn where detected note k has the onset of row
\* r and is longer than r, where a row after r has its offset at or after
\* the detected end, s being the first one, and where no other detected note
\* has the onset of a row: the returned table holds the rows before r as
\* they were, then row r with the detected duration and the technique column
\* set to the magnitude, then row s if its onset is strictly greater than the
\* detected end, then the rows after s as they were; the rows strictly
\* between r and s, and s when its onset is at or before the detected end,
\* are not in it.
C19_ForwardWalk ==
    [][ pc = "update_esn" /\ pc' = "done" =>
          \A k \in DOMAIN note_with_expression_style :
            \A r \in DOMAIN expression_style_note :
              LET n == note_with_expression_style[k]
                  esn == expression_style_note
                  s == StopRow(esn, r, Offset(n))
              IN  /\ n.onset = esn[r].onset
                  /\ esn[r].dur < n.dur
                  /\ s # 0
                  /\ \A j \in DOMAIN note_with_expression_style \ {k} :
                         NoOnsetMatch(esn, note_with_expression_style, j)
                  => returned' =
                         SubSeq(esn, 1, r - 1)
                         \o << [[esn[r] EXCEPT !.dur = n.dur]
                                   EXCEPT ![ColName(TechIndex(technique))] =
                                              sub_technique] >>
                         \o (IF esn[s].onset > Offset(n)
                             THEN <<esn[s]>> ELSE <<>>)
                         \o SubSeq(esn, s + 1, Len(esn)) ]_vars

\* update_esn has walked from the first row over the second, which it
\* deleted, to the third, which starts after the detected end and is kept;
\* the first row has the detected duration and the tag.
C19_Witness ==
    /\ pc = "done"
    /\ technique = "slide out"
    /\ Len(expression_style_note) = 3
    /\ Len(returned) = 2
    /\ \E k \in DOMAIN note_with_expression_style :
        /\ note_with_expression_style[k].onset = returned[1].onset
        /\ note_with_expression_style[k].dur = returned[1].dur
        /\ Offset(expression_style_note[2])
               < Offset(note_with_expression_style[k])
        /\ returned[2].onset > Offset(note_with_expression_style[k])
    /\ returned[1].slideOut = sub_technique
    /\ returned[2] = expression_style_note[3]

---------------------------------------------------------------------------
(* C20 *)

\* C20: when the candidate of an iteration is labelled bend, covers row i
\* and row i + 1, and row i is not marked for deletion, k being the last row
\* of the chain: after the iteration row i has its onset unchanged, the
\* duration onset[k] + dur[k] - onset[i] and the lowest pitch of rows i..k,
\* and rows i+1..k are marked for deletion; and the table returned holds
\* the rows that are not marked, in their order, and no marked row.
C20_MergeGeometry ==
    [][ /\ ( /\ pc = "merge_and_update_prebend_bend_release"
             /\ index_candi <= Len(result)
             /\ result[index_candi].label = 0
             /\ result[index_candi].start # 0 )
            => \A i \in 1..(Len(expression_style_note) - 1) :
                 ( /\ CoversTwoNotes(expression_style_note,
                                     result[index_candi], i)
                   /\ i \notin note_to_be_deleted )
                 => LET esn == expression_style_note
                        k == MergeChainEnd(esn, result, index_candi,
                                           i + 1).current_index_note
                    IN  /\ expression_style_note'[i].onset = esn[i].onset
                        /\ expression_style_note'[i].dur
                               = esn[k].onset + esn[k].dur - esn[i].onset
                        /\ expression_style_note'[i].pitch
                               = SetMin({ esn[n].pitch : n \in i..k })
                        /\ (i + 1)..k \subseteq note_to_be_deleted'
        /\ pc' = "done"
            => /\ Len(returned') = Len(expression_style_note)
                                       - Cardinality(note_to_be_deleted)
               /\ IsSubsequence(returned', expression_style_note)
               /\ \A i \in note_to_be_deleted :
                      \A j \in DOMAIN returned' :
                          returned'[j].onset # expression_style_note[i].onset
      ]_vars

\* A table of three descending notes has been merged into its first row by a
\* chain of two candidates, and returned.
C20_Witness ==
    /\ pc = "done"
    /\ Len(expression_style_note) = 3
    /\ note_to_be_deleted = {2, 3}
    /\ Len(returned) = 1
    /\ returned[1].onset = 0
    /\ returned[1].dur = Offset(expression_style_note[3])
    /\ returned[1].pitch = expression_style_note[3].pitch
    /\ expression_style_note[3].pitch < expression_style_note[2].pitch

---------------------------------------------------------------------------
(* C21 *)

\* The sum of the pitch steps of rows i..k that have the given sign, as
\* magnitudes.
RECURSIVE SumOfSteps(_, _, _, _)
SumOfSteps(esn, i, k, sign) ==
    IF i >= k THEN 0
    ELSE (IF Sign(esn[i + 1].pitch - esn[i].pitch) = sign
          THEN Abs(esn[i + 1].pitch - esn[i].pitch) ELSE 0)
         + SumOfSteps(esn, i + 1, k, sign)

\* C21: when the candidate of an iteration is labelled bend, covers row i and
\* row i + 1, and row i is not marked for deletion, k being the last row of
\* the chain: after the iteration the bend column of row i is the sum of the
\* positive pitch steps of rows i..k, its release column is the sum of the
\* magnitudes of the negative ones, and its preBend column is the release
\* value when release is not zero and bend is zero.
C21_BendAccumulation ==
    [][ ( /\ pc = "merge_and_update_prebend_bend_release"
          /\ index_candi <= Len(result)
          /\ result[index_candi].label = 0
          /\ result[index_candi].start # 0 )
        => \A i \in 1..(Len(expression_style_note) - 1) :
             ( /\ CoversTwoNotes(expression_style_note, result[index_candi], i)
               /\ i \notin note_to_be_deleted )
             => LET esn == expression_style_note
                    k == MergeChainEnd(esn, result, index_candi,
                                       i + 1).current_index_note
                IN  /\ expression_style_note'[i].bend
                           = SumOfSteps(esn, i, k, 1)
                    /\ expression_style_note'[i].release
                           = SumOfSteps(esn, i, k, -1)
                    /\ ( /\ expression_style_note'[i].release # 0
                         /\ expression_style_note'[i].bend = 0 )
                       => expression_style_note'[i].preBend
                              = expression_style_note'[i].release
      ]_vars

---------------------------------------------------------------------------
(* C22 *)

\* C22: when the candidate of an iteration is labelled bend, covers row i and
\* row i + 1, row i is not marked for deletion, and a candidate and a row
\* follow: the chain, whose last note is then j = i + 1, is extended over row
\* j + 1 (row i is given a duration that reaches the offset of row j + 1 or
\* further) exactly when the next candidate is labelled bend, starts strictly
\* inside row j and ends strictly between onset[j+1] and
\* onset[j+1] + dur[j+1].
C22_ChainExtension ==
    [][ ( /\ pc = "merge_and_update_prebend_bend_release"
          /\ index_candi < Len(result)
          /\ result[index_candi].label = 0
          /\ result[index_candi].start # 0 )
        => \A i \in 1..(Len(expression_style_note) - 2) :
             ( /\ CoversTwoNotes(expression_style_note, result[index_candi], i)
               /\ i \notin note_to_be_deleted )
             => LET esn == expression_style_note
                    next == result[index_candi + 1]
                IN  ( expression_style_note'[i].dur
                          >= Offset(esn[i + 2]) - esn[i].onset )
                    <=> ( /\ next.label = 0
                          /\ CoversTwoNotes(esn, next, i + 1) )
      ]_vars

---------------------------------------------------------------------------
(* C23 *)

\* The sum of the durations of rows a..b.
RECURSIVE SumOfDurs(_, _, _)
SumOfDurs(arr, a, b) ==
    IF a > b THEN 0 ELSE arr[a].dur + SumOfDurs(arr, a + 1, b)

\* Pattern p starts in note n and ends in note m, two or three notes later,
\* the two pitches at most MaxCADPitchDiff apart.
LongPattern(n, m, p) ==
    /\ CAD_pattern[p].start >= note[n].onset
    /\ CAD_pattern[p].start <= Offset(note[n])
    /\ CAD_pattern[p].end >= note[m].onset
    /\ CAD_pattern[p].end <= Offset(note[m])
    /\ m - n \in {2, 3}
    /\ Abs(note[n].pitch - note[m].pitch) <= MaxCADPitchDiff

\* C23: the notes registered by long_CAD_pattern_detection are, for each
\* pattern p that starts in note n and ends in note m with m - n in {2, 3}
\* and |pitch[n] - pitch[m]| <= 3, the note with the pitch and the onset of
\* n and the sum of the durations of notes n..m-1 as its duration, and no
\* other note.
C23_LongPatternDuration ==
    pc = "done" =>
        /\ \A p \in DOMAIN CAD_pattern :
             \A n \in DOMAIN note : \A m \in DOMAIN note :
               LongPattern(n, m, p) =>
                   \E k \in DOMAIN note_of_long_CAD :
                       /\ long_CAD_index[k] = p
                       /\ note_of_long_CAD[k]
                              = Note(note[n].pitch, note[n].onset,
                                     SumOfDurs(note, n, m - 1))
        /\ \A k \in DOMAIN note_of_long_CAD :
             \E n \in DOMAIN note : \E m \in DOMAIN note :
                 /\ LongPattern(n, m, long_CAD_index[k])
                 /\ note_of_long_CAD[k]
                        = Note(note[n].pitch, note[n].onset,
                               SumOfDurs(note, n, m - 1))


\* ---------------------------------------------------------------------
\* LongSlide.frame2note: the frame-level contour converted into notes.
\* Frames are numbered from 1 here and from 0 in the source, so the onset
\* of a run that starts at frame fr is frame fr - 1 of the source.
\* ---------------------------------------------------------------------

MaxFrames == 4
F2NPitches == {0, 60, 61}
DefaultHop == 256
DefaultSr == 44100

\* note[:,1] = note[:,1]*hop/sr, in milliseconds.
FrameTime(n, hop, sr) == (n * hop * 1000) \div sr

\* while(frame[offset+1]==frame[offset] and offset+1<frame.shape[0]): the
\* subscript is evaluated before the bound is tested, so the read one past
\* the last frame raises IndexError; 0 stands for that outcome.
RECURSIVE RunEnd(_, _)
RunEnd(frame, offset) ==
    IF offset + 1 > Len(frame)
    THEN 0
    ELSE IF frame[offset + 1] = frame[offset]
         THEN RunEnd(frame, offset + 1)
         ELSE offset

ZeroFrames(frame, onset, offset) ==
    [k \in 1..Len(frame) |-> IF k >= onset /\ k <= offset THEN 0 ELSE frame[k]]

\* for f in range(frame.shape[0]-1): the last frame never starts a run.
RECURSIVE Frame2NoteLoop(_, _, _, _, _)
Frame2NoteLoop(frame, fr, acc, hop, sr) ==
    IF fr > Len(frame) - 1
    THEN [note |-> acc, error |-> FALSE]
    ELSE IF frame[fr] = 0
         THEN Frame2NoteLoop(frame, fr + 1, acc, hop, sr)
         ELSE LET offset == RunEnd(frame, fr)
              IN  IF offset = 0
                  THEN [note |-> <<>>, error |-> TRUE]
                  ELSE Frame2NoteLoop(ZeroFrames(frame, fr, offset), fr + 1,
                           Append(acc, Note(frame[fr], FrameTime(fr - 1, hop, sr),
                                            FrameTime(offset - fr + 1, hop, sr))),
                           hop, sr)

frame2note(frame, hop, sr) == Frame2NoteLoop(frame, 1, <<>>, hop, sr)

F2NInit ==
    /\ pc = "frame2note"
    /\ \E L \in 0..MaxFrames : quantised_melody \in [1..L -> F2NPitches]
    /\ long_slide_sec = <<>>
    /\ note = <<>>
    /\ IdleBut({"note", "ls"})

\* note = LongSlide.frame2note(self.quantised_melody, self.hop, self.sr)
F2NConvert ==
    /\ pc = "frame2note"
    /\ LET r == frame2note(quantised_melody, DefaultHop, DefaultSr)
       IN  IF r.error
           THEN pc' = "IndexError" /\ UNCHANGED note
           ELSE pc' = "done" /\ note' = r.note
    /\ UNCHANGED <<lsVars>>
    /\ UNCHANGED <<wvVars, cadVars, esnVars, fuseVars, clfVars, clsVars, batchVars, pipeVars>>

F2NNext == F2NConvert

SpecF2N == F2NInit /\ [][F2NNext]_vars

\* The end of the maximal run of equal values that starts at frame a.
RECURSIVE EqualRunEnd(_, _)
EqualRunEnd(frame, a) ==
    IF a < Len(frame) /\ frame[a + 1] = frame[a]
    THEN EqualRunEnd(frame, a + 1)
    ELSE a

StartsRun(frame, a) == frame[a] # 0 /\ (a = 1 \/ frame[a - 1] # frame[a])

\* One note per maximal run of equal non-zero values, in order.
RECURSIVE MaximalRuns(_, _, _, _)
MaximalRuns(frame, a, hop, sr) ==
    IF a > Len(frame)
    THEN <<>>
    ELSE IF StartsRun(frame, a)
         THEN <<Note(frame[a], FrameTime(a - 1, hop, sr),
                     FrameTime(EqualRunEnd(frame, a) - a + 1, hop, sr))>>
              \o MaximalRuns(frame, a + 1, hop, sr)
         ELSE MaximalRuns(frame, a + 1, hop, sr)

\* C24: for every quantized contour frame2note terminates without error and
\* returns, in order, exactly one note per maximal run of equal non-zero
\* values (pitch the value, onset the first frame * hop / sr, duration the
\* run length * hop / sr), a run that reaches the final frame included.
C24_RunLengthEncoding ==
    /\ pc # "IndexError"
    /\ pc = "done" => note = MaximalRuns(quantised_melody, 1, DefaultHop, DefaultSr)


\* ---------------------------------------------------------------------
\* The back-projection of the slide-out intervals onto the notes.
\* ---------------------------------------------------------------------

\* The offset the description gives to an interval that starts inside note
\* r: that of the first later note whose offset reaches the interval end
\* (the interval end if that note starts past it), else the interval end.
RECURSIVE BackProjectedOffset(_, _, _)
BackProjectedOffset(k, seg, arr) ==
    IF k > Len(arr)
    THEN seg.end
    ELSE IF Offset(arr[k]) >= seg.end
    THEN IF arr[k].onset > seg.end THEN seg.end ELSE Offset(arr[k])
    ELSE BackProjectedOffset(k + 1, seg, arr)

StartsInside(seg, row) == seg.start > row.onset /\ seg.start < Offset(row)

RECURSIVE BackProjectedNotes(_, _, _)
BackProjectedNotes(r, seg, arr) ==
    IF r > Len(arr)
    THEN <<>>
    ELSE IF StartsInside(seg, arr[r])
    THEN <<Note(arr[r].pitch, arr[r].onset,
                BackProjectedOffset(r + 1, seg, arr) - arr[r].onset)>>
         \o BackProjectedNotes(r + 1, seg, arr)
    ELSE BackProjectedNotes(r + 1, seg, arr)

RECURSIVE BackProjection(_, _, _)
BackProjection(n, lss, arr) ==
    IF n > Len(lss)
    THEN <<>>
    ELSE BackProjectedNotes(1, lss[n], arr) \o BackProjection(n + 1, lss, arr)

\* C25: for every slide-out interval whose start lies strictly inside note
\* r, long_slide_sec_2_long_slide returns one note with the pitch and onset
\* of r and the offset described above; the offset is never left undefined
\* and never taken from a previously processed interval.
C25_BackProjection ==
    [][pc = "S.2" =>
           /\ pc' # "UnboundLocalError"
           /\ long_slide_sec_2_long_slide(long_slide_sec', expression_style_note).long_slide
                  = BackProjection(1, long_slide_sec', expression_style_note)]_vars


\* ---------------------------------------------------------------------
\* The time segments the long slide stage adds.
\* ---------------------------------------------------------------------

SlideOutRows(segs) ==
    [k \in DOMAIN segs |->
        Candidate(segs[k].start, segs[k].end, TechIndex("slide out"))]

\* ts_after holds the rows of ts_before and the rows added, as many times.
AddsExactly(ts_before, ts_after, added) ==
    /\ Len(ts_after) = Len(ts_before) + Len(added)
    /\ \A i \in DOMAIN ts_after :
           Count(ts_after[i], ts_after)
               = Count(ts_after[i], ts_before) + Count(ts_after[i], added)

\* C26 as stated: every row the long slide stage adds to the TS list is
\* (onset, onset + duration, 10) of a back-projected slide-out note, one row
\* per back-projected note and no other row.
C26_SlideOutNotes ==
    [][pc = "S.2" /\ pc' = "S.3" =>
           AddsExactly(expression_style_ts, expression_style_ts',
               SlideOutRows(note_2_ts(
                   long_slide_sec_2_long_slide(long_slide_sec',
                       expression_style_note).long_slide)))]_vars

\* C26: every row the long slide stage adds to the TS list is (start, end,
\* 10) of a ladder segment of long_slide_sec, one row per ladder segment and
\* no other row; the back-projected notes go to the ESN fusion only.
C26_SlideOutSegments ==
    [][pc = "S.2" /\ pc' = "S.3" =>
           AddsExactly(expression_style_ts, expression_style_ts',
                       SlideOutRows(long_slide_sec'))]_vars

\* The long slide stage has ended with a ladder segment in the TS list and
\* the note the segment starts in tagged as a slide out.
C26_Witness ==
    /\ pc = "S.3"
    /\ long_slide_sec # <<>>
    /\ \E i \in DOMAIN expression_style_ts :
           expression_style_ts[i] = SlideOutRows(long_slide_sec)[1]
    /\ \E i \in DOMAIN expression_style_note :
           /\ expression_style_note[i].slideOut = 1
           /\ StartsInside(long_slide_sec[1], expression_style_note[i])


\* ---------------------------------------------------------------------
\* The spans of the rows the bend chain merge deletes.
\* ---------------------------------------------------------------------

\* The offset row i had when the routine was called: the rows are
\* contiguous, no line writes an onset, and the last row is never an anchor.
OriginalOffset(esn, i) ==
    IF i < Len(esn) THEN esn[i + 1].onset ELSE Offset(esn[i])

SpanKept(esn, deleted, i) ==
    \E j \in DOMAIN esn \ deleted :
        /\ esn[j].onset <= esn[i].onset
        /\ OriginalOffset(esn, i) <= Offset(esn[j])

\* C27: after merge_and_update_prebend_bend_release the span [onset, onset +
\* duration) of every deleted row is contained in the span of a surviving
\* row, and a row already marked for deletion never serves as the anchor
\* whose duration a merge extends.
C27_NoSpanLost ==
    [][ /\ pc' = "done" =>
               \A i \in note_to_be_deleted :
                   SpanKept(expression_style_note, note_to_be_deleted, i)
        /\ \A i \in DOMAIN expression_style_note :
               expression_style_note'[i].dur # expression_style_note[i].dur
                   => i \notin note_to_be_deleted ]_vars


\* ---------------------------------------------------------------------
\* The rows a call of update_esn removes.
\* ---------------------------------------------------------------------

\* Row d of the table is not in the table the call returns (the onsets of
\* the rows are distinct).
Removed(esn, ret, d) == \A j \in DOMAIN ret : ret[j].onset # esn[d].onset

\* C28: every row removed by a call of update_esn lies after a matching row
\* that, in the same call, was tagged with the technique and given the
\* detected duration; when the forward walk reaches the end of the table
\* without a stopping row, no row is deleted unless the matching row is
\* tagged and resized.
C28_DeletesOnlyMerged ==
    [][ pc = "update_esn" /\ pc' = "done" =>
          \A d \in DOMAIN expression_style_note :
              Removed(expression_style_note, returned', d) =>
                  \E r \in 1..(d - 1) :
                      \E k \in DOMAIN note_with_expression_style :
                          LET n == note_with_expression_style[k]
                              row == expression_style_note'[r]
                          IN  /\ n.onset = expression_style_note[r].onset
                              /\ row.dur = n.dur
                              /\ row[ColName(TechIndex(technique))] = sub_technique
      ]_vars


\* ---------------------------------------------------------------------
\* The tags of the anchor row of a bend chain merge.
\* ---------------------------------------------------------------------

TagColumns == {"pull", "hamm", "slide", "slideIn", "slideOut", "vibrato"}

\* C29: for every chain merge anchored at row i, each of the columns pull,
\* hammer, slide, slideIn, slideOut and vibrato of the merged row is at
\* least the value row i held in that column before the merge.
C29_AnchorTagsKept ==
    [][ /\ pc = "merge_and_update_prebend_bend_release"
        /\ index_candi' = index_candi + 1
        /\ result[index_candi].label = 0
        /\ result[index_candi].start # 0
        =>
        \A i \in 1..(Len(expression_style_note) - 1) :
            /\ CoversTwoNotes(expression_style_note, result[index_candi], i)
            /\ \A h \in 1..(i - 1) :
                   ~CoversTwoNotes(expression_style_note, result[index_candi], h)
            =>
            \A c \in TagColumns :
                expression_style_note'[i][c] >= expression_style_note[i][c] ]_vars


\* ---------------------------------------------------------------------
\* The technique ids of the time segment list.
\* ---------------------------------------------------------------------

\* C30: in every TS list reachable through the pipeline, the rows appended
\* from the classifier results included, the third field of every row is one
\* of the technique column indices 3..11; a candidate labelled normal
\* contributes no row that carries a label of the classifier.
C30_ValidTechniqueIds ==
    \A i \in DOMAIN expression_style_ts :
        expression_style_ts[i].label \in
            TechIndex("pre-bend")..TechIndex("vibrato")

===========================================================================
